---- MODULE Spec2Model ----
(***************************************************************************)
(* Model of the DORA four-keys calculators of this repository:             *)
(*   - src/main.go: the sequential REST program (GetMergedPRs,             *)
(*     GetRecentCommits, calculateMetrics, printSummary, main);            *)
(*   - src/unnamed/part_000 and part_001: the worker-pool programs built   *)
(*     on the search API (fetchAllIssues, ten goroutines, update).         *)
(* Strings the code inspects (handles, branch names, labels, messages)     *)
(* are sequences of one-character strings so that ToLower, Contains and    *)
(* HasPrefix are computed as the code computes them.  Times are integers   *)
(* (hours); a time.Duration is a difference of two times.                  *)
(***************************************************************************)
EXTENDS Integers, Sequences, FiniteSets, TLC

(***************************************************************************)
(* Bounds of the model.                                                    *)
(***************************************************************************)
\* Page size of every paginated request.  The programs use 100
\* (src/main.go:150, src/main.go:218); the model scales it down.
PerPage == 2
\* Longest commit list one GetPRCommits call returns.
MaxCommits == 2
\* Longest review list one GetPRReviews call returns.
MaxReviews == 2
\* Longest closed-PR listing of a repository in the pagination specification.
MaxPulls == 5

(***************************************************************************)
(* Strings.                                                                *)
(***************************************************************************)
ToLowerChar(c) ==
    CASE c = "A" -> "a"  [] c = "B" -> "b"  [] c = "C" -> "c"  [] c = "D" -> "d"
      [] c = "E" -> "e"  [] c = "F" -> "f"  [] c = "G" -> "g"  [] c = "H" -> "h"
      [] c = "I" -> "i"  [] c = "J" -> "j"  [] c = "K" -> "k"  [] c = "L" -> "l"
      [] c = "M" -> "m"  [] c = "N" -> "n"  [] c = "O" -> "o"  [] c = "P" -> "p"
      [] c = "Q" -> "q"  [] c = "R" -> "r"  [] c = "S" -> "s"  [] c = "T" -> "t"
      [] c = "U" -> "u"  [] c = "V" -> "v"  [] c = "W" -> "w"  [] c = "X" -> "x"
      [] c = "Y" -> "y"  [] c = "Z" -> "z"
      [] OTHER -> c

\* strings.ToLower
ToLower(s) == [k \in 1..Len(s) |-> ToLowerChar(s[k])]

\* strings.HasPrefix
HasPrefix(s, p) == Len(p) <= Len(s) /\ SubSeq(s, 1, Len(p)) = p

\* strings.Contains
Contains(s, sub) ==
    \E k \in 0..(Len(s) - Len(sub)) : SubSeq(s, k + 1, k + Len(sub)) = sub

Str_hotfix == << "h", "o", "t", "f", "i", "x" >>
Str_bugfix == << "b", "u", "g", "f", "i", "x" >>
Str_bug    == << "b", "u", "g" >>
Str_revert == << "r", "e", "v", "e", "r", "t" >>

(***************************************************************************)
(* Statistics (src/main.go:269-294).  Go's integer division truncates      *)
(* toward zero; \div rounds down.                                          *)
(***************************************************************************)
GoDiv(a, b) == IF a >= 0 THEN a \div b ELSE -((-a) \div b)

RECURSIVE InsertSorted(_, _)
InsertSorted(sorted, d) ==
    IF sorted = << >> THEN << d >>
    ELSE IF d < Head(sorted) THEN << d >> \o sorted
    ELSE << Head(sorted) >> \o InsertSorted(Tail(sorted), d)

RECURSIVE SortDurations(_)
\* sort.Slice(sorted, func(i, j) { return sorted[i] < sorted[j] })
SortDurations(durations) ==
    IF durations = << >> THEN << >>
    ELSE InsertSorted(SortDurations(Tail(durations)), Head(durations))

\* A median that takes the middle of the collection as it is given.
median_Unsorted(durations) ==
    IF Len(durations) = 0 THEN 0
    ELSE LET sorted == durations
             mid    == Len(sorted) \div 2
         IN  IF Len(sorted) % 2 = 0
             THEN GoDiv(sorted[mid] + sorted[mid + 1], 2)
             ELSE sorted[mid + 1]

\* src/main.go:269-283; sorted is 1-based here, so sorted[mid-1] and
\* sorted[mid] of the code are sorted[mid] and sorted[mid + 1].
median(durations) ==
    IF Len(durations) = 0 THEN 0
    ELSE LET sorted == SortDurations(durations)
             mid    == Len(sorted) \div 2
         IN  IF Len(sorted) % 2 = 0
             THEN GoDiv(sorted[mid] + sorted[mid + 1], 2)
             ELSE sorted[mid + 1]

RECURSIVE SumDurations(_)
SumDurations(durations) ==
    IF durations = << >> THEN 0
    ELSE Head(durations) + SumDurations(Tail(durations))

average(durations) ==
    IF Len(durations) = 0 THEN 0
    ELSE GoDiv(SumDurations(durations), Len(durations))

(***************************************************************************)
(* The hosting API as the programs see it.  A repository's closed pull     *)
(* requests are listed most recently updated first and served in pages of  *)
(* PerPage items; any request may fail.                                    *)
(***************************************************************************)
L_alice == << "a", "l", "i", "c", "e" >>
L_Alice == << "A", "l", "i", "c", "e" >>
L_ALICE == << "A", "L", "I", "C", "E" >>
L_bob   == << "b", "o", "b" >>
L_Bob   == << "B", "o", "b" >>
L_carol == << "c", "a", "r", "o", "l" >>

Ref_hotfix_x  == << "h", "o", "t", "f", "i", "x", "/", "x" >>
Ref_feature_y == << "f", "e", "a", "t", "u", "r", "e", "/", "y" >>
Ref_feature_z == << "f", "e", "a", "t", "u", "r", "e", "/", "z" >>
Ref_Bugfix_q  == << "f", "i", "x", "/", "B", "u", "g", "F", "i", "x", "-", "q" >>

Label_bug     == << "b", "u", "g" >>
Label_Debug   == << "D", "e", "b", "u", "g" >>
Label_docs    == << "d", "o", "c", "s" >>

Msg_Revert_x  == << "R", "e", "v", "e", "r", "t", " ", "x" >>
Msg_revert_z  == << "r", "e", "v", "e", "r", "t", " ", "z" >>
Msg_feat      == << "f", "e", "a", "t" >>
Msg_unrevert  == << "u", "n", "r", "e", "v", "e", "r", "t" >>

\* A *time.Time is a sequence of length 0 (nil) or 1.
NilTime == << >>
TimeAt(t) == << t >>

PR(n, login, ref, labels, created, merged) ==
    [Number |-> n, Login |-> login, Ref |-> ref, Labels |-> labels,
     CreatedAt |-> created, MergedAt |-> merged]

PR1 == PR(1, L_alice, Ref_hotfix_x,  << >>,            12, TimeAt(16))
PR2 == PR(2, L_Bob,   Ref_feature_y, << Label_bug >>,  11, TimeAt(15))
PR3 == PR(3, L_carol, Ref_feature_z, << >>,            11, NilTime)
PR4 == PR(4, L_alice, Ref_Bugfix_q,  << >>,             3, TimeAt(5))
PR5 == PR(5, L_Alice, Ref_feature_z, << Label_docs >>, 13, TimeAt(14))
PR6 == PR(6, L_bob,   Ref_feature_y, << >>,            19, TimeAt(30))

RepoNames == {"web", "api"}

\* GET /repos/{owner}/{repo}/pulls?state=closed&sort=updated&direction=desc
Catalogue ==
    [r \in RepoNames |->
        IF r = "web" THEN << PR1, PR2, PR3, PR4 >> ELSE << PR6, PR5 >>]

\* GET /repos/{owner}/{repo}/commits?sha={branch}: the messages of the branch's
\* commits, or no such branch.
TrunkLog(repo, branch) ==
    IF repo = "web"
    THEN IF branch = "main"
         THEN [exists |-> TRUE, log |-> << Msg_Revert_x, Msg_feat, Msg_revert_z >>]
         ELSE [exists |-> TRUE, log |-> << Msg_Revert_x >>]
    ELSE IF branch = "main"
         THEN [exists |-> FALSE, log |-> << >>]
         ELSE [exists |-> TRUE, log |-> << Msg_unrevert, Msg_Revert_x >>]

\* Author dates of a pull request's commits, and the reviews a pull request
\* can have received.
CommitDates == {9, 17}
ReviewPool ==
    { [Login |-> L_Alice, SubmittedAt |-> 12],
      [Login |-> L_bob,   SubmittedAt |-> 14],
      [Login |-> L_carol, SubmittedAt |-> 13] }

SeqsUpTo(S, n) == UNION {[1..k -> S] : k \in 0..n}

\* What one call returned: an error, or a value.
Failed == [status |-> "err", val |-> << >>]
Ok(v)  == [status |-> "ok", val |-> v]

CommitOutcomes == {Failed} \cup {Ok(c) : c \in SeqsUpTo(CommitDates, MaxCommits)}
ReviewOutcomes == {Failed} \cup {Ok(r) : r \in SeqsUpTo(ReviewPool, MaxReviews)}

\* The items of page `p` (1-based) of a listing.
PageOf(list, p) ==
    LET lo == (p - 1) * PerPage + 1
        hi == IF p * PerPage < Len(list) THEN p * PerPage ELSE Len(list)
    IN  IF lo > hi THEN << >> ELSE SubSeq(list, lo, hi)

(***************************************************************************)
(* Pure functions of src/main.go.                                          *)
(***************************************************************************)
\* A classifier whose labels must equal a keyword.
isFailurePR_ExactLabel(pr) ==
    LET branchLower == ToLower(pr.Ref)
    IN  \/ Contains(branchLower, Str_hotfix) \/ Contains(branchLower, Str_bugfix)
        \/ \E k \in 1..Len(pr.Labels) :
              ToLower(pr.Labels[k]) \in {Str_bug, Str_hotfix, Str_bugfix}

\* src/main.go:244-262
isFailurePR(pr) ==
    LET branchLower == ToLower(pr.Ref)
    IN  \/ HasPrefix(branchLower, Str_hotfix) \/ HasPrefix(branchLower, Str_bugfix)
        \/ Contains(branchLower, Str_hotfix) \/ Contains(branchLower, Str_bugfix)
        \/ \E k \in 1..Len(pr.Labels) :
              LET labelLower == ToLower(pr.Labels[k])
              IN  \/ labelLower = Str_bug \/ labelLower = Str_hotfix
                  \/ labelLower = Str_bugfix
                  \/ Contains(labelLower, Str_bug) \/ Contains(labelLower, Str_hotfix)

isRevertCommit(message) == HasPrefix(ToLower(message), Str_revert)

RECURSIVE CountReverts(_)
\* src/main.go:320-326
CountReverts(commits) ==
    IF commits = << >> THEN 0
    ELSE (IF isRevertCommit(Head(commits)) THEN 1 ELSE 0) + CountReverts(Tail(commits))

\* memberSet of GetMergedPRs (src/main.go:143-146)
MemberSet(members) == {ToLower(members[k]) : k \in 1..Len(members)}

RECURSIVE ScanPage_IgnoreOld(_, _, _, _)
\* The scan without the foundOld flag.
ScanPage_IgnoreOld(items, since, until, members) ==
    IF items = << >> THEN [kept |-> << >>, foundOld |-> FALSE]
    ELSE LET pr   == Head(items)
             rest == ScanPage_IgnoreOld(Tail(items), since, until, members)
         IN  IF pr.MergedAt = NilTime THEN rest
             ELSE IF pr.MergedAt[1] < since THEN rest
             ELSE IF pr.MergedAt[1] > until THEN rest
             ELSE IF Len(members) > 0 /\ ToLower(pr.Login) \notin MemberSet(members)
                  THEN rest
             ELSE [kept |-> << pr >> \o rest.kept, foundOld |-> FALSE]

RECURSIVE ScanPage(_, _, _, _)
\* One pass of the inner loop of GetMergedPRs over a page (src/main.go:165-182):
\* the pull requests it appends to allPRs, and foundOld.
ScanPage(items, since, until, members) ==
    IF items = << >> THEN [kept |-> << >>, foundOld |-> FALSE]
    ELSE LET pr   == Head(items)
             rest == ScanPage(Tail(items), since, until, members)
         IN  IF pr.MergedAt = NilTime THEN rest
             ELSE IF pr.MergedAt[1] < since
                  THEN [kept |-> rest.kept, foundOld |-> TRUE]
             ELSE IF pr.MergedAt[1] > until THEN rest
             ELSE IF Len(members) > 0 /\ ToLower(pr.Login) \notin MemberSet(members)
                  THEN rest
             ELSE [kept |-> << pr >> \o rest.kept, foundOld |-> rest.foundOld]

RECURSIVE FirstCommitTime(_, _)
\* src/main.go:368-373: `first` starts as prCommits[0]'s date.
FirstCommitTime(commits, first) ==
    IF commits = << >> THEN first
    ELSE FirstCommitTime(Tail(commits),
                         IF Head(commits) < first THEN Head(commits) ELSE first)

RECURSIVE FirstReviewTime_CaseSensitive(_, _, _)
\* The loop with the handles compared as they are.
FirstReviewTime_CaseSensitive(reviews, author, first) ==
    IF reviews = << >> THEN first
    ELSE LET review == Head(reviews)
         IN  IF review.Login = author
             THEN FirstReviewTime_CaseSensitive(Tail(reviews), author, first)
             ELSE IF first = NilTime \/ review.SubmittedAt < first[1]
                  THEN FirstReviewTime_CaseSensitive(Tail(reviews), author,
                                                     TimeAt(review.SubmittedAt))
                  ELSE FirstReviewTime_CaseSensitive(Tail(reviews), author, first)

RECURSIVE FirstReviewTime(_, _, _)
\* src/main.go:385-394: the *time.Time left in firstReviewTime by the loop.
FirstReviewTime(reviews, author, first) ==
    IF reviews = << >> THEN first
    ELSE LET review == Head(reviews)
         IN  IF ToLower(review.Login) = ToLower(author)
             THEN FirstReviewTime(Tail(reviews), author, first)
             ELSE IF first = NilTime \/ review.SubmittedAt < first[1]
                  THEN FirstReviewTime(Tail(reviews), author, TimeAt(review.SubmittedAt))
                  ELSE FirstReviewTime(Tail(reviews), author, first)

NewMember(username) ==
    [Username |-> username, PRsMerged |-> 0, FailurePRs |-> 0,
     LeadTimes |-> << >>, FirstReviewTimes |-> << >>,
     AvgLeadTime |-> 0, MedianLeadTime |-> 0,
     AvgTimeToFirstReview |-> 0, MedianTimeToFirstReview |-> 0]

RECURSIVE InitMembers(_, _)
\* src/main.go:337-341
InitMembers(members, mm) ==
    IF members = << >> THEN mm
    ELSE LET key == ToLower(Head(members))
         IN  InitMembers(Tail(members),
                 [k \in DOMAIN mm \cup {key} |->
                     IF k = key THEN NewMember(Head(members)) ELSE mm[k]])

\* An exact quotient num/den standing for a float64.
Ratio(num, den) == [num |-> num, den |-> den]

\* int(until.Sub(since).Hours()/24) + 1
PeriodDays(since, until) == GoDiv(until - since, 24) + 1

NewMetrics(repo, since, until, members) ==
    [Repo |-> repo, Days |-> PeriodDays(since, until),
     DeploymentFrequency |-> Ratio(0, 1), DeploymentsTotal |-> 0,
     LeadTimeForChanges |-> 0, LeadTimeMedian |-> 0,
     ChangeFailureRate |-> Ratio(0, 1), FailureCount |-> 0,
     TimeToFirstReview |-> 0, TimeToFirstReviewMedian |-> 0,
     PRsAnalyzed |-> 0,
     MemberMetrics |-> InitMembers(members, << >>)]

(***************************************************************************)
(* State of the sequential program (src/main.go).                          *)
(***************************************************************************)
VARIABLES
    cfg,              \* Config: Repos, Members, From, To
    world,            \* the closed pull requests each repository lists
    pc,               \* where main / calculateMetrics stands
    ri,               \* index of the repository in cfg.Repos
    page,             \* page of the running paginated fetch
    allPRs,           \* GetMergedPRs: pull requests kept so far
    requested,        \* pages GetMergedPRs has requested, with what came back
    prs,              \* calculateMetrics: the merged pull requests
    allCommits,       \* GetRecentCommits: commits collected so far
    trunkTried,       \* branches calculateMetrics has asked for, with the result
    revertCount,
    i,                \* index of the pull request in prs
    metrics,          \* the Metrics being built
    leadTimes,
    firstReviewTimes,
    failureCount,
    fetchLog,         \* per pull request of the repository: what its fetches returned
    allMetrics,       \* main: the Metrics handed to printMetrics, in order
    failedRepos,      \* main: repositories reported with "Error analyzing"
    summary,          \* what printSummary computed, if it was called
    returned,         \* leadTimes and firstReviewTimes of calculateMetrics at each return
    fnIn,             \* a function called on its own: its name and argument
    fnOut             \* ... and what it returned

mainVars ==
    << cfg, world, pc, ri, page, allPRs, requested, prs, allCommits, trunkTried,
       revertCount, i, metrics, leadTimes, firstReviewTimes, failureCount,
       fetchLog, allMetrics, failedRepos, summary, returned, fnIn, fnOut >>


(***************************************************************************)
(* State of the worker-pool programs.                                      *)
(***************************************************************************)
VARIABLES
    pcfg,             \* Repos, Members (memberMap), Workers, Prog
    ppc,              \* where the main goroutine stands
    pri,              \* index of the repository in repos
    optsPage,         \* fetchAllIssues: opts.Page
    allIssues,        \* the issue numbers fetchAllIssues has collected
    sent,             \* how many of allIssues the producer has sent
    prChan,           \* the numbers buffered in prChan
    chanState,        \* "none", "open" or "closed"
    closes,           \* how often close(prChan) was called for the repository
    wg,               \* the WaitGroup counter
    mu,               \* 0, or the worker holding the mutex
    wpc,              \* where each worker goroutine stands
    wnum,             \* the number each worker received
    wtmp,             \* the Stats a worker has read and not yet written back
    teamStats,
    repoStats,
    repoStatsMap,
    userStatsMap,
    getLog,           \* the PullRequests.Get calls made: repository, number, outcome
    searchLog,        \* the Search.Issues calls made: repository, page, outcome
    folded,           \* the numbers folded into the accumulators, in order
    wbug              \* isBug / isBugFix of the pull request each worker holds

poolVars ==
    << pcfg, ppc, pri, optsPage, allIssues, sent, prChan, chanState, closes, wg,
       mu, wpc, wnum, wtmp, teamStats, repoStats, repoStatsMap, userStatsMap,
       getLog, searchLog, folded, wbug >>

NoMetrics == NewMetrics("", 0, 0, << >>)

\* The locals of calculateMetrics before it is entered and after it returned.
LocalsReset ==
    /\ page' = 1
    /\ allPRs' = << >>
    /\ prs' = << >>
    /\ allCommits' = << >>
    /\ revertCount' = 0
    /\ i' = 1
    /\ metrics' = NoMetrics
    /\ leadTimes' = << >>
    /\ firstReviewTimes' = << >>
    /\ failureCount' = 0

RepoLists == {<< "web" >>, << "api" >>, << "web", "api" >>, << "api", "web" >>}
MemberLists == {<< >>, << L_ALICE >>}

\* main before its loop over cfg.Repos.
MainStart ==
    /\ pc = "loop"
    /\ ri = 1
    /\ page = 1
    /\ allPRs = << >>
    /\ requested = << >>
    /\ prs = << >>
    /\ allCommits = << >>
    /\ trunkTried = << >>
    /\ revertCount = 0
    /\ i = 1
    /\ metrics = NoMetrics
    /\ leadTimes = << >>
    /\ firstReviewTimes = << >>
    /\ failureCount = 0
    /\ fetchLog = << >>
    /\ allMetrics = << >>
    /\ failedRepos = << >>
    /\ summary = << >>
    /\ returned = << >>

\* No function is called on its own.
FnIdle ==
    /\ fnIn = [fn |-> "none", arg |-> << >>]
    /\ fnOut = << >>

MainInit ==
    /\ cfg \in [Repos : RepoLists, Members : MemberLists, From : {10}, To : {20}]
    /\ world = Catalogue
    /\ MainStart
    /\ FnIdle

Repo == cfg.Repos[ri]

\* main enters calculateMetrics for the next repository (src/main.go:678-679),
\* which calls GetMergedPRs (src/main.go:303).
StartRepo ==
    /\ pc = "loop"
    /\ ri <= Len(cfg.Repos)
    /\ pc' = "prs"
    /\ page' = 1
    /\ allPRs' = << >>
    /\ requested' = << >>
    /\ trunkTried' = << >>
    /\ fetchLog' = << >>
    /\ UNCHANGED << cfg, world, summary, returned, fnIn, fnOut, ri, prs, allCommits, revertCount, i, metrics,
                    leadTimes, firstReviewTimes, failureCount, allMetrics,
                    failedRepos >>
    /\ UNCHANGED poolVars

\* GetMergedPRs returns (prs, nil) to calculateMetrics, which goes on to ask
\* for the commits of "main" (src/main.go:307-310).
MergedPRsReturned(result) ==
    /\ prs' = result
    /\ pc' = "trunk_main"
    /\ page' = 1
    /\ allPRs' = << >>
    /\ allCommits' = << >>
    /\ UNCHANGED << ri, revertCount, i, metrics, leadTimes, firstReviewTimes,
                    failureCount, allMetrics, failedRepos >>

\* A failed repository that ends the run.
MergedPRsFailed_AbortRun ==
    /\ failedRepos' = Append(failedRepos, Repo)
    /\ ri' = Len(cfg.Repos) + 1
    /\ pc' = "loop"
    /\ LocalsReset
    /\ UNCHANGED allMetrics

\* GetMergedPRs returns (nil, err): calculateMetrics returns the error and main
\* reports the repository and goes on (src/main.go:157-159, 304-306, 680-683).
MergedPRsFailed ==
    /\ failedRepos' = Append(failedRepos, Repo)
    /\ ri' = ri + 1
    /\ pc' = "loop"
    /\ LocalsReset
    /\ UNCHANGED allMetrics

\* One turn of the loop of GetMergedPRs (src/main.go:152-188): the request for
\* `page` fails or returns the page.
GetMergedPRsPage ==
    /\ pc = "prs"
    /\ \E ok \in BOOLEAN :
          LET items == PageOf(world[Repo], page)
              scan  == ScanPage(items, cfg.From, cfg.To, cfg.Members)
          IN  /\ requested' = Append(requested,
                                      [repo |-> Repo, page |-> page, ok |-> ok])
              /\ IF ~ok THEN MergedPRsFailed
                 ELSE IF Len(items) = 0 THEN MergedPRsReturned(allPRs)
                 ELSE IF scan.foundOld \/ Len(items) < PerPage
                      THEN MergedPRsReturned(allPRs \o scan.kept)
                 ELSE /\ allPRs' = allPRs \o scan.kept
                      /\ page' = page + 1
                      /\ UNCHANGED << pc, ri, prs, allCommits, revertCount, i,
                                      metrics, leadTimes, firstReviewTimes,
                                      failureCount, allMetrics, failedRepos >>
    /\ UNCHANGED << cfg, world, summary, returned, fnIn, fnOut, trunkTried, fetchLog >>
    /\ UNCHANGED poolVars

\* GetRecentCommits returned, or failed for both branches and commits is the
\* empty list: the reverts are counted and the Metrics created
\* (src/main.go:320-345).  `commits` is not read again.
TrunkDone(commits) ==
    /\ revertCount' = CountReverts(commits)
    /\ metrics' = NewMetrics(Repo, cfg.From, cfg.To, cfg.Members)
    /\ leadTimes' = << >>
    /\ firstReviewTimes' = << >>
    /\ failureCount' = 0
    /\ i' = 1
    /\ page' = 1
    /\ allCommits' = << >>
    /\ pc' = "pr_begin"

\* A trunk fetch that gives up after the first branch.
HasFallback_Never(branch) == FALSE

\* src/main.go:311-313: a failed fetch of "main" is followed by one of "master";
\* a failed fetch of "master" is followed by none (src/main.go:314-317).
HasFallback(branch) == branch = "main"

\* One turn of the loop of GetRecentCommits (src/main.go:220-239), called for
\* "main" and, if that failed, for "master" (src/main.go:310-318).
GetRecentCommitsPage ==
    /\ pc \in {"trunk_main", "trunk_master"}
    /\ LET branch == IF pc = "trunk_main" THEN "main" ELSE "master"
           trunk  == TrunkLog(Repo, branch)
       IN  \E ok \in (IF trunk.exists THEN BOOLEAN ELSE {FALSE}) :
              LET items == PageOf(trunk.log, page)
                  tried == Append(trunkTried, [branch |-> branch, ok |-> ok])
              IN  IF ~ok
                  THEN /\ trunkTried' = tried
                       /\ IF HasFallback(branch)
                          THEN /\ pc' = "trunk_master"
                               /\ page' = 1
                               /\ allCommits' = << >>
                               /\ UNCHANGED << revertCount, metrics, leadTimes,
                                               firstReviewTimes, failureCount, i >>
                          ELSE TrunkDone(<< >>)
                  ELSE IF Len(items) = 0
                       THEN trunkTried' = tried /\ TrunkDone(allCommits)
                  ELSE IF Len(items) < PerPage
                       THEN trunkTried' = tried /\ TrunkDone(allCommits \o items)
                  ELSE /\ allCommits' = allCommits \o items
                       /\ page' = page + 1
                       /\ UNCHANGED << trunkTried, pc, revertCount, metrics, leadTimes,
                                       firstReviewTimes, failureCount, i >>
    /\ UNCHANGED << cfg, world, summary, returned, fnIn, fnOut, ri, allPRs, requested, prs, fetchLog, allMetrics,
                    failedRepos >>
    /\ UNCHANGED poolVars

IncPRsMerged(m) == [m EXCEPT !.PRsMerged = @ + 1]

\* Head of the loop over prs up to the call of GetPRCommits
\* (src/main.go:347-361).
BeginPR ==
    /\ pc = "pr_begin"
    /\ i <= Len(prs)
    /\ LET pr        == prs[i]
           memberKey == ToLower(pr.Login)
           mm        == metrics.MemberMetrics
           created   == [k \in DOMAIN mm \cup {memberKey} |->
                            IF k \in DOMAIN mm THEN mm[k] ELSE NewMember(pr.Login)]
       IN  metrics' = [metrics EXCEPT
               !.MemberMetrics = [created EXCEPT ![memberKey] = IncPRsMerged(@)]]
    /\ pc' = "pr_commits"
    /\ UNCHANGED << cfg, world, summary, returned, fnIn, fnOut, ri, page, allPRs, requested, prs, allCommits,
                    trunkTried, revertCount, i, leadTimes, firstReviewTimes,
                    failureCount, fetchLog, allMetrics, failedRepos >>
    /\ UNCHANGED poolVars

\* A zero sample, instead of none, for a pull request without commits.
LeadTimeSample_ZeroForNone(pr, prCommits) ==
    IF Len(prCommits) > 0 /\ pr.MergedAt # NilTime
    THEN << pr.MergedAt[1] - FirstCommitTime(prCommits, prCommits[1]) >>
    ELSE << 0 >>

\* src/main.go:367-377: the lead-time sample of a pull request whose commits
\* were fetched, as a sequence of no or one duration.
LeadTimeSample(pr, prCommits) ==
    IF Len(prCommits) > 0 /\ pr.MergedAt # NilTime
    THEN << pr.MergedAt[1] - FirstCommitTime(prCommits, prCommits[1]) >>
    ELSE << >>

\* src/main.go:380-400: the first-review sample of a pull request, given what
\* GetPRReviews returned, as a sequence of no or one duration.
FirstReviewSample(pr, out) ==
    IF out.status = "ok" /\ Len(out.val) > 0
    THEN LET firstReviewTime == FirstReviewTime(out.val, pr.Login, NilTime)
         IN  IF firstReviewTime # NilTime
             THEN << firstReviewTime[1] - pr.CreatedAt >>
             ELSE << >>
    ELSE << >>

\* What the log keeps of a fetch: whether it failed, and of the items it
\* returned the earliest time that counts.
Range(s) == {s[k] : k \in DOMAIN s}
Earliest(S) == IF S = {} THEN NilTime ELSE TimeAt(CHOOSE x \in S : \A y \in S : x <= y)
EqualFold(a, b) ==
    Len(a) = Len(b) /\ \A k \in 1..Len(a) : ToLowerChar(a[k]) = ToLowerChar(b[k])
OtherReviews(pr, reviews) ==
    {r \in Range(reviews) : ~EqualFold(r.Login, pr.Login)}

CommitsEntry(pr, out) ==
    [Number |-> pr.Number,
     commits |-> IF out.status = "err" THEN "err"
                 ELSE IF out.val = << >> THEN "empty" ELSE "some",
     firstCommit |-> Earliest(Range(out.val)),
     reviews |-> IF out.status = "err" THEN "skipped" ELSE "pending",
     firstReview |-> NilTime]

ReviewsEntry(entry, pr, out) ==
    [entry EXCEPT
        !.reviews = IF out.status = "err" THEN "err"
                    ELSE IF out.val = << >> THEN "empty"
                    ELSE IF OtherReviews(pr, out.val) = {} THEN "self" ELSE "other",
        !.firstReview = Earliest({r.SubmittedAt : r \in OtherReviews(pr, out.val)})]

\* A lead time kept at repository scope only.
AddLead_RepoOnly(m, sample) == m

\* memberMetric.LeadTimes = append(memberMetric.LeadTimes, leadTime)
\* (src/main.go:376); sample holds no or one lead time.
AddLead(m, sample) == [m EXCEPT !.LeadTimes = @ \o sample]

\* GetPRCommits returns (src/main.go:361-377); calculateMetrics goes on to call
\* GetPRReviews, or to the next pull request if the fetch failed.
CommitsReturn ==
    /\ pc = "pr_commits"
    /\ \E out \in CommitOutcomes :
          LET pr        == prs[i]
              memberKey == ToLower(pr.Login)
              sample    == LeadTimeSample(pr, out.val)
          IN  /\ fetchLog' = Append(fetchLog, CommitsEntry(pr, out))
              /\ IF out.status = "err"
                 THEN /\ i' = i + 1
                      /\ pc' = "pr_begin"
                      /\ UNCHANGED << leadTimes, metrics >>
                 ELSE /\ leadTimes' = leadTimes \o sample
                      /\ metrics' = [metrics EXCEPT
                                        !.MemberMetrics[memberKey] = AddLead(@, sample)]
                      /\ pc' = "pr_reviews"
                      /\ UNCHANGED i
    /\ UNCHANGED << cfg, world, summary, returned, fnIn, fnOut, ri, page, allPRs, requested, prs, allCommits,
                    trunkTried, revertCount, firstReviewTimes, failureCount,
                    allMetrics, failedRepos >>
    /\ UNCHANGED poolVars

\* GetPRReviews returns; the pull request is classified and the loop goes to
\* the next one (src/main.go:380-407).
ReviewsReturn ==
    /\ pc = "pr_reviews"
    /\ \E out \in ReviewOutcomes :
          LET pr        == prs[i]
              memberKey == ToLower(pr.Login)
              sample    == FirstReviewSample(pr, out)
              failure   == isFailurePR(pr)
              Fold(m)   == [m EXCEPT
                               !.FirstReviewTimes = @ \o sample,
                               !.FailurePRs = IF failure THEN @ + 1 ELSE @]
          IN  /\ firstReviewTimes' = firstReviewTimes \o sample
              /\ failureCount' = IF failure THEN failureCount + 1 ELSE failureCount
              /\ metrics' = [metrics EXCEPT !.MemberMetrics[memberKey] = Fold(@)]
              /\ fetchLog' = [fetchLog EXCEPT
                                ![Len(fetchLog)] = ReviewsEntry(@, pr, out)]
    /\ i' = i + 1
    /\ pc' = "pr_begin"
    /\ UNCHANGED << cfg, world, summary, returned, fnIn, fnOut, ri, page, allPRs, requested, prs, allCommits,
                    trunkTried, revertCount, leadTimes, allMetrics, failedRepos >>
    /\ UNCHANGED poolVars

\* A rate that leaves the trunk reverts out.
FailureRate_NoReverts(failures, reverts, total) ==
    IF total > 0 THEN Ratio(failures * 100, total) ELSE Ratio(0, 1)

\* src/main.go:416-418; the float64 quotient is kept exact.
FailureRate(failures, reverts, total) ==
    IF total > 0 THEN Ratio((failures + reverts) * 100, total) ELSE Ratio(0, 1)

FinalizeMember(m) ==
    [m EXCEPT !.AvgLeadTime = average(m.LeadTimes),
              !.MedianLeadTime = median(m.LeadTimes),
              !.AvgTimeToFirstReview = average(m.FirstReviewTimes),
              !.MedianTimeToFirstReview = median(m.FirstReviewTimes)]

\* The loop over prs is over: the aggregate and member-level metrics are
\* computed (src/main.go:409-431).
Finalize ==
    /\ pc = "pr_begin"
    /\ i > Len(prs)
    /\ metrics' =
          [metrics EXCEPT
              !.DeploymentsTotal = Len(prs),
              !.DeploymentFrequency = Ratio(Len(prs), PeriodDays(cfg.From, cfg.To)),
              !.LeadTimeForChanges = average(leadTimes),
              !.LeadTimeMedian = median(leadTimes),
              !.FailureCount = failureCount + revertCount,
              !.ChangeFailureRate = FailureRate(failureCount, revertCount, Len(prs)),
              !.TimeToFirstReview = average(firstReviewTimes),
              !.TimeToFirstReviewMedian = median(firstReviewTimes),
              !.PRsAnalyzed = Len(prs),
              !.MemberMetrics = [k \in DOMAIN @ |-> FinalizeMember(@[k])]]
    /\ pc' = "return"
    /\ UNCHANGED << cfg, world, summary, returned, fnIn, fnOut, ri, page, allPRs, requested, prs, allCommits,
                    trunkTried, revertCount, i, leadTimes, firstReviewTimes,
                    failureCount, fetchLog, allMetrics, failedRepos >>
    /\ UNCHANGED poolVars

\* calculateMetrics returns the Metrics; main keeps and prints it and goes to
\* the next repository (src/main.go:431, 684-686).
ReturnMetrics ==
    /\ pc = "return"
    /\ allMetrics' = Append(allMetrics, metrics)
    /\ ri' = ri + 1
    /\ pc' = "loop"
    /\ returned' = Append(returned, [leadTimes |-> leadTimes,
                                      firstReviewTimes |-> firstReviewTimes])
    /\ LocalsReset
    /\ UNCHANGED << cfg, world, summary, fnIn, fnOut, requested, trunkTried, fetchLog,
                    failedRepos >>
    /\ UNCHANGED poolVars

\* The orders in which `range m.MemberMetrics` can visit the keys of each
\* Metrics of a list (src/main.go:512): Go leaves the order of a map open.
Perms(S) ==
    {q \in [1..Cardinality(S) -> S] : \A a, b \in 1..Cardinality(S) : q[a] = q[b] => a = b}
KeyOrders(all) ==
    {ord \in [1..Len(all) -> UNION {Perms(DOMAIN all[k].MemberMetrics) : k \in 1..Len(all)}] :
        \A k \in 1..Len(all) : ord[k] \in Perms(DOMAIN all[k].MemberMetrics)}

\* A merge that keeps the counts of the last repository only.
MergeMember_KeepLast(acc, key, mm) ==
    LET cm     == IF key \in DOMAIN acc.combinedMembers
                  THEN acc.combinedMembers[key] ELSE NewMember(mm.Username)
        merged == [cm EXCEPT !.PRsMerged = mm.PRsMerged,
                             !.FailurePRs = mm.FailurePRs,
                             !.LeadTimes = @ \o mm.LeadTimes,
                             !.FirstReviewTimes = @ \o mm.FirstReviewTimes]
    IN  [acc EXCEPT
            !.combinedMembers = [k \in DOMAIN acc.combinedMembers \cup {key} |->
                                    IF k = key THEN merged ELSE acc.combinedMembers[k]],
            !.allLeadTimes = @ \o mm.LeadTimes,
            !.allFirstReviewTimes = @ \o mm.FirstReviewTimes]

\* The body of the loop over m.MemberMetrics (src/main.go:513-521).
MergeMember(acc, key, mm) ==
    LET cm     == IF key \in DOMAIN acc.combinedMembers
                  THEN acc.combinedMembers[key] ELSE NewMember(mm.Username)
        merged == [cm EXCEPT !.PRsMerged = @ + mm.PRsMerged,
                             !.FailurePRs = @ + mm.FailurePRs,
                             !.LeadTimes = @ \o mm.LeadTimes,
                             !.FirstReviewTimes = @ \o mm.FirstReviewTimes]
    IN  [acc EXCEPT
            !.combinedMembers = [k \in DOMAIN acc.combinedMembers \cup {key} |->
                                    IF k = key THEN merged ELSE acc.combinedMembers[k]],
            !.allLeadTimes = @ \o mm.LeadTimes,
            !.allFirstReviewTimes = @ \o mm.FirstReviewTimes]

RECURSIVE MergeMembers(_, _, _)
\* src/main.go:512-522, the keys visited in the order `keys`.
MergeMembers(acc, m, keys) ==
    IF keys = << >> THEN acc
    ELSE MergeMembers(MergeMember(acc, Head(keys), m.MemberMetrics[Head(keys)]),
                      m, Tail(keys))

RECURSIVE MergeRepos(_, _, _, _)
\* src/main.go:508-523, from the k-th Metrics on.
MergeRepos(acc, all, ord, k) ==
    IF k > Len(all) THEN acc
    ELSE LET m == all[k]
             counted == [acc EXCEPT !.totalDeploys = @ + m.DeploymentsTotal,
                                    !.totalFailures = @ + m.FailureCount]
         IN  MergeRepos(MergeMembers(counted, m, ord[k]), all, ord, k + 1)

\* An average taken over the first pooled sample only.
CombinedLeadTime_FirstSample(acc) ==
    IF acc.allLeadTimes = << >> THEN 0 ELSE acc.allLeadTimes[1]

\* average(allLeadTimes) (src/main.go:540)
CombinedLeadTime(acc) == average(acc.allLeadTimes)

\* printSummary: what it computes and prints (src/main.go:498-551).  The
\* float64 quotients are kept exact.
printSummary(all, ord) ==
    LET start == [totalDeploys |-> 0, totalFailures |-> 0,
                  allLeadTimes |-> << >>, allFirstReviewTimes |-> << >>,
                  combinedMembers |-> << >>,
                  days |-> IF Len(all) > 0 THEN all[1].Days ELSE 0]
        acc   == MergeRepos(start, all, ord, 1)
    IN  [totalDeploys |-> acc.totalDeploys,
         totalFailures |-> acc.totalFailures,
         days |-> acc.days,
         allLeadTimes |-> acc.allLeadTimes,
         allFirstReviewTimes |-> acc.allFirstReviewTimes,
         combinedMembers |-> [k \in DOMAIN acc.combinedMembers |->
                                 FinalizeMember(acc.combinedMembers[k])],
         Frequency |-> Ratio(acc.totalDeploys, acc.days),
         LeadTimeAverage |-> CombinedLeadTime(acc),
         LeadTimeMedian |-> median(acc.allLeadTimes),
         Rate |-> IF acc.totalDeploys > 0
                  THEN << Ratio(acc.totalFailures * 100, acc.totalDeploys) >>
                  ELSE << >>,
         FirstReviewAverage |-> average(acc.allFirstReviewTimes),
         FirstReviewMedian |-> median(acc.allFirstReviewTimes)]

\* Every repository was visited: the combined summary is printed if more
\* than one repository was analysed (src/main.go:688-693).
EndRun ==
    /\ pc = "loop"
    /\ ri > Len(cfg.Repos)
    /\ pc' = "done"
    /\ IF Len(allMetrics) > 1
       THEN \E ord \in KeyOrders(allMetrics) :
               summary' = << printSummary(allMetrics, ord) >>
       ELSE UNCHANGED summary
    /\ UNCHANGED << cfg, world, returned, fnIn, fnOut, ri, page, allPRs, requested, prs, allCommits,
                    trunkTried, revertCount, i, metrics, leadTimes,
                    firstReviewTimes, failureCount, fetchLog, allMetrics,
                    failedRepos >>
    /\ UNCHANGED poolVars

(***************************************************************************)
(* The worker-pool programs (src/unnamed/part_000, src/unnamed/part_001).  *)
(* They differ in the classifier and in the fields update maintains; Prog  *)
(* says which one runs.                                                    *)
(***************************************************************************)
\* Goroutines started per repository.  The programs start 10
\* (src/unnamed/part_000:88, src/unnamed/part_001:74); the model scales it down.
PoolSize == 2

Kw_bug        == << "b", "u", "g" >>
Kw_fix        == << "f", "i", "x" >>
Kw_hotfix     == << "h", "o", "t", "f", "i", "x" >>
Kw_defect     == << "d", "e", "f", "e", "c", "t" >>
Kw_incident   == << "i", "n", "c", "i", "d", "e", "n", "t" >>
Kw_patch      == << "p", "a", "t", "c", "h" >>
Kw_security   == << "s", "e", "c", "u", "r", "i", "t", "y" >>
Kw_dependabot == << "d", "e", "p", "e", "n", "d", "a", "b", "o", "t" >>
\* The two Japanese keywords, one code point per character.
Kw_fuguai     == << "U+4E0D", "U+5177", "U+5408" >>
Kw_shusei     == << "U+4FEE", "U+6B63" >>

\* src/unnamed/part_000:105
Keywords000 ==
    {Kw_bug, Kw_fix, Kw_hotfix, Kw_defect, Kw_incident, Kw_fuguai, Kw_shusei}
\* src/unnamed/part_001:110
Keywords001 == Keywords000 \cup {Kw_patch, Kw_security, Kw_dependabot}

MatchesKeywords(pr, keywords) ==
    \E text \in {ToLower(pr.Labels[k]) : k \in 1..Len(pr.Labels)}
                  \cup {ToLower(pr.Title), ToLower(pr.Ref)} :
       \E kw \in keywords : Contains(text, kw)

\* src/unnamed/part_000:100-125
isBug(pr) == MatchesKeywords(pr, Keywords000)
\* src/unnamed/part_001:107-122
isBugFix(pr) == MatchesKeywords(pr, Keywords001)

Classify(prog, pr) == IF prog = "part_000" THEN isBug(pr) ELSE isBugFix(pr)

\* Stats holds the fields of both programs; a program leaves the other's at 0.
NewStats ==
    [TotalPRs |-> 0, TotalLeadTime |-> 0, BugFixPRs |-> 0, FeaturePRs |-> 0,
     TotalAdditions |-> 0, TotalDeletions |-> 0]

\* An update that keeps the last lead time instead of the sum.
update_LastLeadTime(prog, s, lt, isFix, add, del) ==
    [s EXCEPT !.TotalPRs = @ + 1,
              !.TotalLeadTime = lt,
              !.TotalAdditions = @ + add,
              !.TotalDeletions = IF prog = "part_000" THEN @ + del ELSE @,
              !.BugFixPRs = IF isFix THEN @ + 1 ELSE @,
              !.FeaturePRs = IF prog = "part_000" \/ isFix THEN @ ELSE @ + 1]

\* update of src/unnamed/part_000:165-171 and of src/unnamed/part_001:124-133.
update(prog, s, lt, isFix, add, del) ==
    IF prog = "part_000"
    THEN [s EXCEPT !.TotalPRs = @ + 1,
                   !.TotalLeadTime = @ + lt,
                   !.TotalAdditions = @ + add,
                   !.TotalDeletions = @ + del,
                   !.BugFixPRs = IF isFix THEN @ + 1 ELSE @]
    ELSE [s EXCEPT !.TotalPRs = @ + 1,
                   !.TotalLeadTime = @ + lt,
                   !.TotalAdditions = @ + add,
                   !.BugFixPRs = IF isFix THEN @ + 1 ELSE @,
                   !.FeaturePRs = IF isFix THEN @ ELSE @ + 1]

Title_Fix_login == << "F", "i", "x", " ", "l", "o", "g", "i", "n" >>
Title_Add_page  == << "A", "d", "d", " ", "p", "a", "g", "e" >>
Title_Bump_deps == << "B", "u", "m", "p", " ", "d", "e", "p", "s" >>
Ref_dependabot  == << "d", "e", "p", "s", "/", "n", "p", "m" >>
Label_Security  == << "S", "e", "c", "u", "r", "i", "t", "y" >>

PoolPR(n, login, title, ref, labels, created, merged, add, del) ==
    [Number |-> n, Login |-> login, Title |-> title, Ref |-> ref,
     Labels |-> labels, CreatedAt |-> created, MergedAt |-> merged,
     Additions |-> add, Deletions |-> del]

\* What PullRequests.Get returns, when it succeeds, for the merged pull
\* requests the search finds in each repository.
PoolPulls(repo) ==
    IF repo = "web"
    THEN << PoolPR(11, L_alice, Title_Fix_login, Ref_feature_y, << >>, 10, 14, 5, 1),
            PoolPR(12, L_Bob, Title_Add_page, Ref_feature_z, << Label_docs >>, 11, 13, 3, 0),
            PoolPR(13, L_alice, Title_Add_page, Ref_hotfix_x, << >>, 12, 15, 2, 2) >>
    ELSE << PoolPR(21, L_Alice, Title_Bump_deps, Ref_dependabot, << Label_Security >>,
                   13, 14, 7, 4) >>

\* GET /repos/{owner}/{repo}/pulls/{number}/commits: the author dates of the
\* commits of each of these pull requests, in listing order.
PoolCommitDates(num) ==
    IF num = 11 THEN << 9, 8 >>
    ELSE IF num = 12 THEN << 12 >>
    ELSE IF num = 13 THEN << 11, 16 >>
    ELSE << 10, 12 >>

PoolIssues(repo) == [k \in 1..Len(PoolPulls(repo)) |-> PoolPulls(repo)[k].Number]

PullByNumber(repo, num) ==
    LET pulls == PoolPulls(repo)
    IN  pulls[CHOOSE k \in 1..Len(pulls) : pulls[k].Number = num]

Workers == 1..PoolSize

\* main before its loop over repos (src/unnamed/part_000:68-75).
PoolStart ==
    /\ pri = 1
    /\ optsPage = 0
    /\ allIssues = << >>
    /\ sent = 0
    /\ prChan = << >>
    /\ chanState = "none"
    /\ closes = 0
    /\ wg = 0
    /\ mu = 0
    /\ wpc = [w \in Workers |-> "none"]
    /\ wnum = [w \in Workers |-> 0]
    /\ wtmp = [w \in Workers |-> NewStats]
    /\ teamStats = NewStats
    /\ repoStats = NewStats
    /\ repoStatsMap = << >>
    /\ userStatsMap = << >>
    /\ getLog = {}
    /\ searchLog = << >>
    /\ folded = << >>
    /\ wbug = [w \in Workers |-> FALSE]

\* The worker-pool program is not run.
PoolIdle ==
    /\ pcfg = [Repos |-> << >>, Members |-> {}, Workers |-> 0, Prog |-> "part_000"]
    /\ ppc = "done"
    /\ PoolStart

\* The sequential program is not run.
MainIdle ==
    /\ cfg = [Repos |-> << >>, Members |-> << >>, From |-> 0, To |-> 0]
    /\ world = Catalogue
    /\ MainStart
    /\ FnIdle

PoolMemberSets == {{}, {L_alice}}

PoolInit ==
    /\ pcfg \in [Repos : RepoLists, Members : PoolMemberSets,
                 Workers : {1, PoolSize}, Prog : {"part_000", "part_001"}]
    /\ ppc = "loop"
    /\ PoolStart
    /\ MainIdle

PoolRepo == pcfg.Repos[pri]

\* repoStatsMap[repoName] = repoStats, and on to the next repository
\* (src/unnamed/part_000:82-83, 145).
RecordRepo ==
    /\ repoStatsMap' = [r \in DOMAIN repoStatsMap \cup {PoolRepo} |->
                           IF r = PoolRepo THEN repoStats ELSE repoStatsMap[r]]
    /\ pri' = pri + 1
    /\ ppc' = "loop"

\* Head of the loop over repos up to the call of fetchAllIssues
\* (src/unnamed/part_000:75-79).
StartSearch ==
    /\ ppc = "loop"
    /\ pri <= Len(pcfg.Repos)
    /\ repoStats' = NewStats
    /\ optsPage' = 0
    /\ allIssues' = << >>
    /\ ppc' = "search"
    /\ UNCHANGED << pcfg, pri, sent, prChan, chanState, closes, wg, mu, wpc, wnum,
                    wtmp, teamStats, repoStatsMap, userStatsMap, getLog, searchLog,
                    folded, wbug >>
    /\ UNCHANGED mainVars

\* One turn of the loop of fetchAllIssues (src/unnamed/part_000:155-162); when
\* it returns, main records an empty repository or goes on to start the pool
\* (src/unnamed/part_000:81-84).
SearchPage ==
    /\ ppc = "search"
    /\ \E ok \in BOOLEAN :
          LET p      == IF optsPage = 0 THEN 1 ELSE optsPage
              issues == PoolIssues(PoolRepo)
              all    == allIssues \o PageOf(issues, p)
              nextPg == IF p * PerPage < Len(issues) THEN p + 1 ELSE 0
          IN  /\ searchLog' = Append(searchLog,
                                     [repo |-> PoolRepo, page |-> p, ok |-> ok])
              /\ IF ~ok
                 THEN /\ allIssues' = << >>
                      /\ RecordRepo
                      /\ UNCHANGED optsPage
                 ELSE IF nextPg # 0
                 THEN /\ allIssues' = all
                      /\ optsPage' = nextPg
                      /\ UNCHANGED << ppc, pri, repoStatsMap >>
                 ELSE IF Len(all) = 0
                 THEN /\ allIssues' = all
                      /\ RecordRepo
                      /\ UNCHANGED optsPage
                 ELSE /\ allIssues' = all
                      /\ ppc' = "spawn"
                      /\ UNCHANGED << optsPage, pri, repoStatsMap >>
    /\ UNCHANGED << pcfg, sent, prChan, chanState, closes, wg, mu, wpc, wnum, wtmp,
                    teamStats, repoStats, userStatsMap, getLog, folded, wbug >>
    /\ UNCHANGED mainVars

\* prChan is made and the goroutines are started
\* (src/unnamed/part_000:86-141).
SpawnWorkers ==
    /\ ppc = "spawn"
    /\ prChan' = << >>
    /\ chanState' = "open"
    /\ closes' = 0
    /\ sent' = 0
    /\ wg' = pcfg.Workers
    /\ wpc' = [w \in Workers |-> IF w <= pcfg.Workers THEN "recv" ELSE "none"]
    /\ ppc' = "produce"
    /\ UNCHANGED << pcfg, pri, optsPage, allIssues, mu, wnum, wtmp, teamStats,
                    repoStats, repoStatsMap, userStatsMap, getLog, searchLog, folded, wbug >>
    /\ UNCHANGED mainVars

\* prChan <- issue.GetNumber() (src/unnamed/part_000:142).  The buffer holds
\* len(allIssues) numbers, so the send never blocks; a send on a closed
\* channel panics.
Produce ==
    /\ ppc = "produce"
    /\ sent < Len(allIssues)
    /\ IF chanState = "closed"
       THEN ppc' = "panic" /\ UNCHANGED << prChan, sent >>
       ELSE /\ prChan' = Append(prChan, allIssues[sent + 1])
            /\ sent' = sent + 1
            /\ UNCHANGED ppc
    /\ UNCHANGED << pcfg, pri, optsPage, allIssues, chanState, closes, wg, mu, wpc,
                    wnum, wtmp, teamStats, repoStats, repoStatsMap, userStatsMap,
                    getLog, searchLog, folded, wbug >>
    /\ UNCHANGED mainVars

\* A close that is left out.
CloseQueue_Skipped ==
    /\ UNCHANGED chanState
    /\ closes' = closes

\* close(prChan)
CloseQueue ==
    /\ chanState' = "closed"
    /\ closes' = closes + 1

\* src/unnamed/part_000:143; closing a closed channel panics.
CloseChan ==
    /\ ppc = "produce"
    /\ sent = Len(allIssues)
    /\ IF chanState = "closed"
       THEN ppc' = "panic" /\ UNCHANGED << chanState, closes >>
       ELSE ppc' = "wait" /\ CloseQueue
    /\ UNCHANGED << pcfg, pri, optsPage, allIssues, sent, prChan, wg, mu, wpc, wnum,
                    wtmp, teamStats, repoStats, repoStatsMap, userStatsMap, getLog,
                    searchLog, folded, wbug >>
    /\ UNCHANGED mainVars

\* wg.Wait() returns and the repository is recorded
\* (src/unnamed/part_000:144-145).
WaitDone ==
    /\ ppc = "wait"
    /\ wg = 0
    /\ RecordRepo
    /\ UNCHANGED << pcfg, optsPage, allIssues, sent, prChan, chanState, closes, wg,
                    mu, wpc, wnum, wtmp, teamStats, repoStats, userStatsMap, getLog,
                    searchLog, folded, wbug >>
    /\ UNCHANGED mainVars

\* displayResults (src/unnamed/part_000:148)
Display ==
    /\ ppc = "loop"
    /\ pri > Len(pcfg.Repos)
    /\ ppc' = "done"
    /\ UNCHANGED << pcfg, pri, optsPage, allIssues, sent, prChan, chanState, closes,
                    wg, mu, wpc, wnum, wtmp, teamStats, repoStats, repoStatsMap,
                    userStatsMap, getLog, searchLog, folded, wbug >>
    /\ UNCHANGED mainVars

\* The pull request a worker holds and what it computed from it before the
\* lock (src/unnamed/part_000:96-132).
Held(w) == PullByNumber(PoolRepo, wnum[w])
LeadTimeOf(pr) == pr.MergedAt - pr.CreatedAt
Updated(w, s) ==
    update(pcfg.Prog, s, LeadTimeOf(Held(w)), wbug[w],
           Held(w).Additions, Held(w).Deletions)

\* for num := range prChan (src/unnamed/part_000:92), and the deferred
\* wg.Done() when the channel is closed and drained (src/unnamed/part_000:91).
Receive(w) ==
    /\ wpc[w] = "recv"
    /\ IF Len(prChan) > 0 THEN TRUE ELSE chanState = "closed"
    /\ IF Len(prChan) > 0
       THEN /\ wnum' = [wnum EXCEPT ![w] = Head(prChan)]
            /\ prChan' = Tail(prChan)
            /\ wpc' = [wpc EXCEPT ![w] = "get"]
            /\ UNCHANGED wg
       ELSE /\ wpc' = [wpc EXCEPT ![w] = "exited"]
            /\ wg' = wg - 1
            /\ UNCHANGED << wnum, prChan >>
    /\ UNCHANGED << pcfg, ppc, pri, optsPage, allIssues, sent, chanState, closes, mu,
                    wtmp, teamStats, repoStats, repoStatsMap, userStatsMap, getLog,
                    searchLog, folded, wbug >>
    /\ UNCHANGED mainVars

\* PullRequests.Get and the member filter (src/unnamed/part_000:93-97).
GetPR(w) ==
    /\ wpc[w] = "get"
    /\ \E ok \in BOOLEAN :
          /\ getLog' = getLog \cup {[repo |-> PoolRepo, num |-> wnum[w], ok |-> ok]}
          /\ IF ~ok
             THEN /\ wpc' = [wpc EXCEPT ![w] = "recv"]
                  /\ UNCHANGED wbug
             ELSE IF Cardinality(pcfg.Members) > 0 /\ Held(w).Login \notin pcfg.Members
             THEN /\ wpc' = [wpc EXCEPT ![w] = "recv"]
                  /\ UNCHANGED wbug
             ELSE /\ wbug' = [wbug EXCEPT ![w] = Classify(pcfg.Prog, Held(w))]
                  /\ wpc' = [wpc EXCEPT ![w] = "lock"]
    /\ UNCHANGED << pcfg, ppc, pri, optsPage, allIssues, sent, prChan, chanState,
                    closes, wg, mu, wnum, wtmp, teamStats, repoStats, repoStatsMap,
                    userStatsMap, searchLog, folded >>
    /\ UNCHANGED mainVars

\* A mutex that never blocks.
MutexFree_Always == TRUE

\* mu.Lock() returns only when no goroutine holds mu.
MutexFree == mu = 0

\* mu.Lock() (src/unnamed/part_000:133)
Lock(w) ==
    /\ wpc[w] = "lock"
    /\ MutexFree
    /\ mu' = w
    /\ wpc' = [wpc EXCEPT ![w] = "init_user"]
    /\ UNCHANGED << pcfg, ppc, pri, optsPage, allIssues, sent, prChan, chanState,
                    closes, wg, wnum, wtmp, teamStats, repoStats, repoStatsMap,
                    userStatsMap, getLog, searchLog, folded, wbug >>
    /\ UNCHANGED mainVars

\* if userStatsMap[author] == nil { userStatsMap[author] = &Stats{} }
\* (src/unnamed/part_000:134)
InitUser(w) ==
    /\ wpc[w] = "init_user"
    /\ LET author == Held(w).Login
       IN  userStatsMap' =
              IF author \in DOMAIN userStatsMap
              THEN userStatsMap
              ELSE [a \in DOMAIN userStatsMap \cup {author} |->
                       IF a = author THEN NewStats ELSE userStatsMap[a]]
    /\ wpc' = [wpc EXCEPT ![w] = "load_team"]
    /\ UNCHANGED << pcfg, ppc, pri, optsPage, allIssues, sent, prChan, chanState,
                    closes, wg, mu, wnum, wtmp, teamStats, repoStats, repoStatsMap,
                    getLog, searchLog, folded, wbug >>
    /\ UNCHANGED mainVars

\* An update reads the accumulator it is about to change
\* (src/unnamed/part_000:135-137, 166-170).
UpdateLoad(w) ==
    /\ wpc[w] \in {"load_team", "load_repo", "load_user"}
    /\ IF wpc[w] = "load_team"
       THEN /\ wtmp' = [wtmp EXCEPT ![w] = teamStats]
            /\ wpc' = [wpc EXCEPT ![w] = "store_team"]
       ELSE IF wpc[w] = "load_repo"
       THEN /\ wtmp' = [wtmp EXCEPT ![w] = repoStats]
            /\ wpc' = [wpc EXCEPT ![w] = "store_repo"]
       ELSE /\ wtmp' = [wtmp EXCEPT ![w] = userStatsMap[Held(w).Login]]
            /\ wpc' = [wpc EXCEPT ![w] = "store_user"]
    /\ UNCHANGED << pcfg, ppc, pri, optsPage, allIssues, sent, prChan, chanState,
                    closes, wg, mu, wnum, teamStats, repoStats, repoStatsMap,
                    userStatsMap, getLog, searchLog, folded, wbug >>
    /\ UNCHANGED mainVars

\* ... and writes back what it read, changed
\* (src/unnamed/part_000:135-137, 166-170).
UpdateStore(w) ==
    /\ wpc[w] \in {"store_team", "store_repo", "store_user"}
    /\ IF wpc[w] = "store_team"
       THEN /\ teamStats' = Updated(w, wtmp[w])
            /\ folded' = Append(folded, wnum[w])
            /\ wpc' = [wpc EXCEPT ![w] = "load_repo"]
            /\ UNCHANGED << repoStats, userStatsMap >>
       ELSE IF wpc[w] = "store_repo"
       THEN /\ repoStats' = Updated(w, wtmp[w])
            /\ wpc' = [wpc EXCEPT ![w] = "load_user"]
            /\ UNCHANGED << teamStats, userStatsMap, folded >>
       ELSE /\ userStatsMap' = [userStatsMap EXCEPT ![Held(w).Login] = Updated(w, wtmp[w])]
            /\ wpc' = [wpc EXCEPT ![w] = "unlock"]
            /\ UNCHANGED << teamStats, repoStats, folded >>
    /\ wtmp' = [wtmp EXCEPT ![w] = NewStats]
    /\ UNCHANGED << pcfg, ppc, pri, optsPage, allIssues, sent, prChan, chanState,
                    closes, wg, mu, wnum, repoStatsMap, getLog, searchLog, wbug >>
    /\ UNCHANGED mainVars

\* mu.Unlock() (src/unnamed/part_000:138); the iteration ends and with it
\* the scope of isBug.
Unlock(w) ==
    /\ wpc[w] = "unlock"
    /\ mu' = 0
    /\ wpc' = [wpc EXCEPT ![w] = "recv"]
    /\ wbug' = [wbug EXCEPT ![w] = FALSE]
    /\ UNCHANGED << pcfg, ppc, pri, optsPage, allIssues, sent, prChan, chanState,
                    closes, wg, wnum, wtmp, teamStats, repoStats, repoStatsMap,
                    userStatsMap, getLog, searchLog, folded >>
    /\ UNCHANGED mainVars

PoolMainNext ==
    \/ StartSearch
    \/ SearchPage
    \/ SpawnWorkers
    \/ Produce
    \/ CloseChan
    \/ WaitDone
    \/ Display

WorkerNext(w) ==
    \/ Receive(w)
    \/ GetPR(w)
    \/ Lock(w)
    \/ InitUser(w)
    \/ UpdateLoad(w)
    \/ UpdateStore(w)
    \/ Unlock(w)

PoolNext == PoolMainNext \/ \E w \in Workers : WorkerNext(w)

vars == << mainVars, poolVars >>

\* The sequential program runs; the worker-pool program is not started.
Init == MainInit /\ PoolIdle

MainNext ==
    \/ StartRepo
    \/ GetMergedPRsPage
    \/ GetRecentCommitsPage
    \/ BeginPR
    \/ CommitsReturn
    \/ ReviewsReturn
    \/ Finalize
    \/ ReturnMetrics
    \/ EndRun

Next == MainNext

Spec == Init /\ [][Next]_vars

\* The worker-pool programs, part_000 and part_001.
PoolSpec == PoolInit /\ [][PoolNext]_vars

\* The Go scheduler lets every goroutine that can run take its step.
FairPoolSpec ==
    /\ PoolSpec
    /\ WF_vars(PoolMainNext)
    /\ \A w \in Workers : WF_vars(WorkerNext(w))

(***************************************************************************)
(* GetMergedPRs on its own, over every short listing of closed pull        *)
(* requests: merged in the window, unmerged, merged before it, merged      *)
(* after it.                                                               *)
(***************************************************************************)
PageItems == {PR1, PR2, PR3, PR4, PR6}

PageInit ==
    /\ cfg \in [Repos : {<< "web" >>}, Members : MemberLists, From : {10}, To : {20}]
    /\ world \in [RepoNames -> SeqsUpTo(PageItems, MaxPulls)]
    /\ world["api"] = << >>
    /\ MainStart
    /\ FnIdle
    /\ PoolIdle

PageNext ==
    \/ StartRepo
    \/ GetMergedPRsPage

PageSpec == PageInit /\ [][PageNext]_vars

(***************************************************************************)
(* printSummary on its own, applied to the Metrics of one repository the   *)
(* run analysed.  main calls it only with two or more (src/main.go:689);   *)
(* the function itself takes any list.                                     *)
(***************************************************************************)
CombineOne ==
    /\ pc = "done"
    /\ fnIn.fn = "none"
    /\ \E k \in 1..Len(allMetrics) :
          \E ord \in KeyOrders(<< allMetrics[k] >>) :
             /\ fnIn' = [fn |-> "printSummary", arg |-> << allMetrics[k] >>]
             /\ fnOut' = << printSummary(<< allMetrics[k] >>, ord) >>
    /\ UNCHANGED << cfg, world, summary, returned, pc, ri, page, allPRs, requested, prs,
                    allCommits, trunkTried, revertCount, i, metrics, leadTimes,
                    firstReviewTimes, failureCount, fetchLog, allMetrics,
                    failedRepos >>
    /\ UNCHANGED poolVars

SummaryNext ==
    \/ MainNext
    \/ CombineOne

SummarySpec == Init /\ [][SummaryNext]_vars

(***************************************************************************)
(* printSummary on its own, applied to the Metrics of two repositories.    *)
(* The Metrics are what calculateMetrics builds from short lists of pull   *)
(* requests whose fetches succeeded, each reduced to its author, its lead  *)
(* time, its time to first review (if any) and its classification.         *)
(***************************************************************************)
SampleLeadTimes == {1, 3, 7}
SamplePRs ==
    {[Login |-> l, lead |-> d,
      review |-> IF d = 3 THEN << >> ELSE << d + 1 >>,
      fail |-> (d = 1)] : l \in {L_alice, L_Alice, L_Bob}, d \in SampleLeadTimes}
SampleLists == SeqsUpTo(SamplePRs, 2)

RECURSIVE AddSamples(_, _)
\* The loop over prs (src/main.go:347-407) for pull requests with commits.
AddSamples(m, samples) ==
    IF samples = << >> THEN m
    ELSE LET pr        == Head(samples)
             memberKey == ToLower(pr.Login)
             mm        == m.MemberMetrics
             created   == [k \in DOMAIN mm \cup {memberKey} |->
                              IF k \in DOMAIN mm THEN mm[k] ELSE NewMember(pr.Login)]
             sampled   == [created EXCEPT ![memberKey] =
                              [IncPRsMerged(@) EXCEPT
                                  !.LeadTimes = Append(@, pr.lead),
                                  !.FirstReviewTimes = @ \o pr.review,
                                  !.FailurePRs = @ + (IF pr.fail THEN 1 ELSE 0)]]
         IN  AddSamples([m EXCEPT !.MemberMetrics = sampled,
                                  !.FailureCount = @ + (IF pr.fail THEN 1 ELSE 0)],
                        Tail(samples))

RECURSIVE Flatten(_)
Flatten(ss) == IF ss = << >> THEN << >> ELSE Head(ss) \o Flatten(Tail(ss))

\* calculateMetrics for such a list, no revert commit on the trunk
\* (src/main.go:329-431).
MetricsOf(repo, samples) ==
    LET m         == AddSamples(NewMetrics(repo, 10, 20, << >>), samples)
        leads     == [k \in 1..Len(samples) |-> samples[k].lead]
        reviews   == Flatten([k \in 1..Len(samples) |-> samples[k].review])
    IN  [m EXCEPT
            !.DeploymentsTotal = Len(samples),
            !.DeploymentFrequency = Ratio(Len(samples), PeriodDays(10, 20)),
            !.LeadTimeForChanges = average(leads),
            !.LeadTimeMedian = median(leads),
            !.ChangeFailureRate = FailureRate(m.FailureCount, 0, Len(samples)),
            !.TimeToFirstReview = average(reviews),
            !.TimeToFirstReviewMedian = median(reviews),
            !.PRsAnalyzed = Len(samples),
            !.MemberMetrics = [k \in DOMAIN @ |-> FinalizeMember(@[k])]]

MergeInit ==
    /\ cfg = [Repos |-> << "web", "api" >>, Members |-> << >>, From |-> 10, To |-> 20]
    /\ world = Catalogue
    /\ MainStart
    /\ \E a, b \in SampleLists :
          fnIn = [fn |-> "printSummary",
                  arg |-> << MetricsOf("web", a), MetricsOf("api", b) >>]
    /\ fnOut = << >>
    /\ PoolIdle

CombineTwo ==
    /\ fnIn.fn = "printSummary"
    /\ fnOut = << >>
    /\ \E ord \in KeyOrders(fnIn.arg) : fnOut' = << printSummary(fnIn.arg, ord) >>
    /\ UNCHANGED << cfg, world, summary, returned, fnIn, pc, ri, page, allPRs, requested,
                    prs, allCommits, trunkTried, revertCount, i, metrics, leadTimes,
                    firstReviewTimes, failureCount, fetchLog, allMetrics,
                    failedRepos >>
    /\ UNCHANGED poolVars

MergeNext == CombineTwo

MergeSpec == MergeInit /\ [][MergeNext]_vars

(***************************************************************************)
(* isFailurePR on its own, over pull requests with every head branch, up   *)
(* to two labels and every title of a small set, and over the three pull   *)
(* requests of a repository whose trunk has no revert commit.              *)
(***************************************************************************)
Ref_HOTFIX_9   == << "r", "e", "l", "/", "H", "O", "T", "F", "I", "X", "9" >>
Label_HotFix   == << "u", "r", "g", "e", "n", "t", "-", "H", "o", "t", "F", "i", "x" >>
Title_hotfix   == << "h", "o", "t", "f", "i", "x", " ", "b", "u", "g" >>

ClassifierRefs   == {Ref_hotfix_x, Ref_feature_y, Ref_feature_z, Ref_Bugfix_q, Ref_HOTFIX_9}
ClassifierLabels == {Label_bug, Label_Debug, Label_docs, Label_HotFix}
ClassifierTitles == {Title_Add_page, Title_hotfix}

\* A PullRequest with its title (src/main.go:30-45).
Titled(pr, title) ==
    [Number |-> pr.Number, Title |-> title, Login |-> pr.Login, Ref |-> pr.Ref,
     Labels |-> pr.Labels, CreatedAt |-> pr.CreatedAt, MergedAt |-> pr.MergedAt]

ClassifierInputs ==
    {Titled(PR(7, L_alice, ref, labels, 12, TimeAt(16)), title) :
        ref \in ClassifierRefs, labels \in SeqsUpTo(ClassifierLabels, 2),
        title \in ClassifierTitles}

\* #1 on hotfix/x, #2 on feature/y labelled bug, #3 on feature/z, all merged.
ScenarioA ==
    << Titled(PR1, Title_Add_page), Titled(PR2, Title_Add_page),
       Titled(PR(3, L_carol, Ref_feature_z, << >>, 11, TimeAt(17)), Title_Add_page) >>

ClassifierInit ==
    /\ cfg = [Repos |-> << "web" >>, Members |-> << >>, From |-> 10, To |-> 20]
    /\ world = Catalogue
    /\ MainStart
    /\ \E list \in {<< pr >> : pr \in ClassifierInputs} \cup {ScenarioA} :
          fnIn = [fn |-> "isFailurePR", arg |-> list]
    /\ fnOut = << >>
    /\ PoolIdle

\* The classification of every pull request of the list and the counts
\* calculateMetrics derives from it when no fetch fails and the trunk has no
\* revert commit (src/main.go:403-406, 411, 415).
ClassifyAll ==
    /\ fnIn.fn = "isFailurePR"
    /\ fnOut = << >>
    /\ LET flags == [k \in 1..Len(fnIn.arg) |-> isFailurePR(fnIn.arg[k])]
       IN  fnOut' = << [flags |-> flags,
                        DeploymentsTotal |-> Len(fnIn.arg),
                        FailureCount |->
                            Cardinality({k \in 1..Len(fnIn.arg) : flags[k]}) + 0] >>
    /\ UNCHANGED << cfg, world, summary, returned, fnIn, pc, ri, page, allPRs, requested,
                    prs, allCommits, trunkTried, revertCount, i, metrics, leadTimes,
                    firstReviewTimes, failureCount, fetchLog, allMetrics,
                    failedRepos >>
    /\ UNCHANGED poolVars

ClassifierNext == ClassifyAll

ClassifierSpec == ClassifierInit /\ [][ClassifierNext]_vars

(***************************************************************************)
(* median on its own, applied to a collection of durations and to a        *)
(* rearrangement of it.                                                    *)
(***************************************************************************)
MedianValues == {0 - 3, 0, 4, 7}
MaxSamples == 4

\* The rearrangements of a collection.
Rearranged(d) == {[k \in 1..Len(d) |-> d[q[k]]] : q \in Perms(1..Len(d))}

MedianInit ==
    /\ cfg = [Repos |-> << "web" >>, Members |-> << >>, From |-> 10, To |-> 20]
    /\ world = Catalogue
    /\ MainStart
    /\ \E d \in SeqsUpTo(MedianValues, MaxSamples) :
          \E q \in Rearranged(d) :
             fnIn = [fn |-> "median", arg |-> [durations |-> d, rearranged |-> q]]
    /\ fnOut = << >>
    /\ PoolIdle

\* median(durations) and median(rearranged): each call copies its argument
\* into `sorted` and sorts that (src/main.go:273-277), so the caller's slices
\* are what they were.
ApplyMedian ==
    /\ fnIn.fn = "median"
    /\ fnOut = << >>
    /\ LET durations == fnIn.arg.durations
           sorted    == SortDurations(durations)
       IN  fnOut' = << [durations |-> durations,
                        sorted |-> sorted,
                        res |-> median(durations),
                        resRearranged |-> median(fnIn.arg.rearranged)] >>
    /\ UNCHANGED << cfg, world, summary, returned, fnIn, pc, ri, page, allPRs, requested,
                    prs, allCommits, trunkTried, revertCount, i, metrics, leadTimes,
                    firstReviewTimes, failureCount, fetchLog, allMetrics,
                    failedRepos >>
    /\ UNCHANGED poolVars

MedianNext == ApplyMedian

MedianSpec == MedianInit /\ [][MedianNext]_vars

(***************************************************************************)
(* Properties of calculateMetrics and main (src/main.go).                  *)
(***************************************************************************)
InLoop == pc \in {"pr_begin", "pr_commits", "pr_reviews", "return"}

\* How many pull requests of prs the loop has begun.
Begun == IF pc \in {"pr_commits", "pr_reviews"} THEN i ELSE i - 1

\* The log entries whose pull request went through the whole loop body.
Classified == {k \in 1..Len(fetchLog) : fetchLog[k].reviews \notin {"skipped", "pending"}}

\* The revert commits of the trunk log calculateMetrics ended up with.
TrunkReverts ==
    IF trunkTried # << >> /\ trunkTried[Len(trunkTried)].ok
    THEN LET log == TrunkLog(Repo, trunkTried[Len(trunkTried)].branch).log
         IN  Cardinality({k \in 1..Len(log) : isRevertCommit(log[k])})
    ELSE 0

ClassifiedFailures == Cardinality({k \in Classified : isFailurePR(prs[k])})

RateAtMost100(rate) == rate.num <= 100 * rate.den

\* C1 (as amended): a finalized ChangeFailureRate is never negative, equals
\* (failurePRs + reverts) / totalPRs * 100 when totalPRs > 0 and 0 when
\* totalPRs = 0, and is at most 100 exactly when failurePRs + reverts <=
\* totalPRs; failurePRs are the pull requests the loop classified as failures.
C1_FailureRateFormula ==
    pc = "return" =>
        LET rate  == metrics.ChangeFailureRate
            total == metrics.DeploymentsTotal
            fails == ClassifiedFailures + TrunkReverts
        IN  /\ rate.den > 0 /\ rate.num >= 0
            /\ metrics.FailureCount = fails
            /\ total > 0 => rate.num * total = fails * 100 * rate.den
            /\ total = 0 => rate.num = 0
            /\ total > 0 => (RateAtMost100(rate) <=> fails <= total)

\* C1 as stated: the rate always lies in [0,100].
C1_RateWithin0And100 ==
    pc = "return" =>
        /\ metrics.ChangeFailureRate.num >= 0
        /\ RateAtMost100(metrics.ChangeFailureRate)

C1_Witness ==
    /\ pc = "return"
    /\ metrics.DeploymentsTotal = 2
    /\ ClassifiedFailures = 1
    /\ TrunkReverts = 2
    /\ ~RateAtMost100(metrics.ChangeFailureRate)

\* A count kept per member.
MemberCount(m, what) ==
    CASE what = "PRsMerged" -> m.PRsMerged
      [] what = "FailurePRs" -> m.FailurePRs
      [] what = "LeadTimes" -> Len(m.LeadTimes)
      [] what = "FirstReviewTimes" -> Len(m.FirstReviewTimes)

RECURSIVE SumOver(_, _, _)
SumOver(mm, keys, what) ==
    IF keys = {} THEN 0
    ELSE LET k == CHOOSE x \in keys : TRUE
         IN  MemberCount(mm[k], what) + SumOver(mm, keys \ {k}, what)

\* The count summed over the members of the Metrics being built.
MemberTotal(what) == SumOver(metrics.MemberMetrics, DOMAIN metrics.MemberMetrics, what)

\* The log entries whose fetches all succeeded.
Fetched == {k \in 1..Len(fetchLog) :
               fetchLog[k].commits # "err" /\ fetchLog[k].reviews \notin {"err", "skipped"}}

\* C2: a pull request one of whose fetches (commits, reviews) failed is skipped:
\* the finalized repository counts only the pull requests whose fetches
\* succeeded, in DeploymentsTotal, PRsAnalyzed, the members' PRsMerged, the
\* failure counters and the duration collections.
C2_FailedFetchNotCounted ==
    pc = "return" =>
        /\ metrics.DeploymentsTotal = Cardinality(Fetched)
        /\ metrics.PRsAnalyzed = Cardinality(Fetched)
        /\ MemberTotal("PRsMerged") = Cardinality(Fetched)
        /\ failureCount = Cardinality({k \in Fetched : isFailurePR(prs[k])})
        /\ Len(leadTimes) <= Cardinality(Fetched)
        /\ Len(firstReviewTimes) <= Cardinality(Fetched)

KeyOf(k) == ToLower(prs[k].Login)
MemberKeys == DOMAIN metrics.MemberMetrics

RECURSIVE ExpectedFirstReviews(_, _)
\* The first-review samples the log accounts for, in the order of the pull
\* requests: one per pull request of `keys` with a review by someone else.
ExpectedFirstReviews(n, keys) ==
    IF n = 0 THEN << >>
    ELSE ExpectedFirstReviews(n - 1, keys) \o
         (IF fetchLog[n].reviews = "other" /\ KeyOf(n) \in keys
          THEN << fetchLog[n].firstReview[1] - prs[n].CreatedAt >>
          ELSE << >>)

AllKeys == {KeyOf(k) : k \in 1..Len(prs)}

\* C4: a time-to-first-review sample is recorded for a pull request only if
\* some review is by someone other than its author, handles compared ignoring
\* case, and is then the earliest such review's submission time minus the pull
\* request's creation time; a pull request reviewed by its author only adds
\* no sample and is still counted in PRsMerged.
C4_FirstReviewByOthersOnly ==
    InLoop =>
        /\ firstReviewTimes = ExpectedFirstReviews(Len(fetchLog), AllKeys)
        /\ \A key \in MemberKeys :
              metrics.MemberMetrics[key].FirstReviewTimes =
                  ExpectedFirstReviews(Len(fetchLog), {key})
        /\ \A k \in 1..Len(fetchLog) :
              fetchLog[k].reviews = "self" =>
                  metrics.MemberMetrics[KeyOf(k)].PRsMerged >= 1
        /\ MemberTotal("PRsMerged") = Begun

C4_Witness ==
    /\ pc = "return"
    /\ Len(fetchLog) = 2
    /\ fetchLog[1].reviews = "self"
    /\ fetchLog[2].reviews = "other"
    /\ Len(firstReviewTimes) = 1
    /\ MemberTotal("PRsMerged") = 2

\* The repositories main is done with.
Visited == SubSeq(cfg.Repos, 1, ri - 1)
ReposOf(ms) == [k \in 1..Len(ms) |-> ms[k].Repo]
HasFailed(r) == r \in Range(failedRepos)
HasNotFailed(r) == ~HasFailed(r)

\* C9: a repository whose pull-request list fetch fails is reported and
\* skipped, the repositories after it are still analysed, and the Metrics
\* handed to the renderer are those of the repositories that did not fail, in
\* the order of the input list.
C9_FailedRepoSkipped ==
    /\ ReposOf(allMetrics) = SelectSeq(Visited, HasNotFailed)
    /\ failedRepos = SelectSeq(Visited, HasFailed)
    /\ pc = "loop" /\ ri > 1 =>
          /\ requested # << >>
          /\ HasFailed(cfg.Repos[ri - 1]) <=> ~requested[Len(requested)].ok
          /\ HasNotFailed(cfg.Repos[ri - 1]) =>
                /\ allMetrics[Len(allMetrics)].DeploymentsTotal = Len(fetchLog)
                /\ allMetrics[Len(allMetrics)].Days = PeriodDays(cfg.From, cfg.To)
    /\ pc = "done" => ri = Len(cfg.Repos) + 1

C9_Witness ==
    /\ pc = "done"
    /\ Len(cfg.Repos) = 2
    /\ failedRepos = << cfg.Repos[1] >>
    /\ ReposOf(allMetrics) = << cfg.Repos[2] >>
    /\ allMetrics[1].DeploymentsTotal > 0

(***************************************************************************)
(* Properties of GetMergedPRs (src/main.go), under PageSpec.               *)
(***************************************************************************)
\* Page p of the listing that GetMergedPRs walks.
ListedPage(p) == PageOf(world[requested[1].repo], p)

HasOldItem(items) ==
    \E k \in 1..Len(items) :
        items[k].MergedAt # NilTime /\ items[k].MergedAt[1] < cfg.From

\* A page after which the stop rule ends the pagination.
EndsPagination(p) == Len(ListedPage(p)) < PerPage \/ HasOldItem(ListedPage(p))

\* C10: GetMergedPRs requests pages 1, 2, 3, ... in order and ends after the
\* first page that returns fewer items than the page size or contains an item
\* merged before the window start; it requests no page after that one.
C10_PaginationStopRule ==
    /\ \A k \in 1..Len(requested) : requested[k].page = k
    /\ \A k \in 1..(Len(requested) - 1) : requested[k].ok /\ ~EndsPagination(k)
    /\ pc = "prs" =>
          /\ page = Len(requested) + 1
          /\ \A k \in 1..Len(requested) : requested[k].ok /\ ~EndsPagination(k)
    /\ pc = "trunk_main" =>
          /\ requested # << >>
          /\ requested[Len(requested)].ok
          /\ EndsPagination(Len(requested))

\* Two full pages without an old item, then the page with one.
C10_Witness ==
    /\ pc = "trunk_main"
    /\ Len(requested) = 2
    /\ Len(ListedPage(2)) = PerPage
    /\ HasOldItem(ListedPage(2))
    /\ Len(ListedPage(3)) > 0

----------------------------------------------------------------------------
\* The worker pool

\* The calls of PullRequests.Get that succeeded for a pull request whose
\* author passes the member filter.
PassesFilter(pr) == Cardinality(pcfg.Members) = 0 \/ pr.Login \in pcfg.Members
Counted ==
    {e \in getLog : e.ok /\ PassesFilter(PullByNumber(e.repo, e.num))}
CountedIn(repo) == {e \in Counted : e.repo = repo}
CountedBy(author) == {e \in Counted : PullByNumber(e.repo, e.num).Login = author}
Authors == {PullByNumber(e.repo, e.num).Login : e \in Counted}

RECURSIVE LeadTimeSum(_)
LeadTimeSum(S) ==
    IF S = {} THEN 0
    ELSE LET e == CHOOSE x \in S : TRUE
         IN  LeadTimeOf(PullByNumber(e.repo, e.num)) + LeadTimeSum(S \ {e})

BugFixes(S) == {e \in S : Classify(pcfg.Prog, PullByNumber(e.repo, e.num))}

TotalsOver(s, S) ==
    /\ s.TotalPRs = Cardinality(S)
    /\ s.BugFixPRs = Cardinality(BugFixes(S))
    /\ s.TotalLeadTime = LeadTimeSum(S)

InCritical(w) ==
    wpc[w] \in {"init_user", "load_team", "store_team", "load_repo", "store_repo",
                "load_user", "store_user", "unlock"}
NoWorkerRuns == ppc \in {"loop", "search", "spawn", "done"}
NoDuplicates(q) == \A a, b \in 1..Len(q) : q[a] = q[b] => a = b

\* C5: at most one worker at a time is between mu.Lock() and mu.Unlock(), and
\* once the pool of a repository has drained the team, repository and member
\* counts of merged PRs, counts of bug fixes and sums of lead times are the
\* totals over the PRs whose fetch succeeded and whose author passed the
\* member filter, each folded exactly once.
C5_TotalsExactUnderMutex ==
    /\ \A w1, w2 \in Workers : InCritical(w1) /\ InCritical(w2) => w1 = w2
    /\ \A w \in Workers : InCritical(w) => mu = w
    /\ NoDuplicates(folded)
    /\ NoWorkerRuns =>
          /\ Range(folded) = {e.num : e \in Counted}
          /\ TotalsOver(teamStats, Counted)
          /\ \A r \in DOMAIN repoStatsMap : TotalsOver(repoStatsMap[r], CountedIn(r))
          /\ DOMAIN userStatsMap = Authors
          /\ \A a \in DOMAIN userStatsMap : TotalsOver(userStatsMap[a], CountedBy(a))

\* Two workers have folded four PRs of two repositories, the second of the
\* queue before the first.
C5_Witness ==
    /\ ppc = "done"
    /\ pcfg.Workers = PoolSize
    /\ teamStats.TotalPRs = 4
    /\ folded[1] = 12
    /\ Cardinality(DOMAIN userStatsMap) = 3

\* What one goroutine alone computes: the queue of every repository folded
\* from its head, with the outcomes the calls of PullRequests.Get had.
FetchedOk(repo, num) == [repo |-> repo, num |-> num, ok |-> TRUE] \in getLog

SeqStep(acc, repo, num) ==
    LET pr     == PullByNumber(repo, num)
        author == pr.Login
        upd(s) == update(pcfg.Prog, s, LeadTimeOf(pr), Classify(pcfg.Prog, pr),
                         pr.Additions, pr.Deletions)
        users  == [a \in DOMAIN acc.users \cup {author} |->
                      IF a \in DOMAIN acc.users THEN acc.users[a] ELSE NewStats]
    IN  IF ~FetchedOk(repo, num) \/ ~PassesFilter(pr)
        THEN acc
        ELSE [team  |-> upd(acc.team),
              repos |-> [acc.repos EXCEPT ![repo] = upd(@)],
              users |-> [users EXCEPT ![author] = upd(@)]]

RECURSIVE SeqQueue(_, _, _)
SeqQueue(acc, repo, nums) ==
    IF nums = << >> THEN acc
    ELSE SeqQueue(SeqStep(acc, repo, Head(nums)), repo, Tail(nums))

RECURSIVE SeqRepos(_, _)
SeqRepos(acc, repos) ==
    IF repos = << >> THEN acc
    ELSE LET repo    == Head(repos)
             started == [r \in DOMAIN acc.repos \cup {repo} |->
                            IF r = repo THEN NewStats ELSE acc.repos[r]]
         IN  SeqRepos(SeqQueue([acc EXCEPT !.repos = started], repo, PoolIssues(repo)),
                      Tail(repos))

Sequential ==
    SeqRepos([team |-> NewStats, repos |-> << >>, users |-> << >>], pcfg.Repos)

\* C6: whatever the number of workers and their interleaving, the final
\* team, repository and member accumulators are those one goroutine computes
\* by folding the queues in order, so a pool of one and a pool of PoolSize
\* end with the same counts and sums on the same input.
C6_PoolSizeIndependent ==
    ppc = "done" =>
       /\ teamStats = Sequential.team
       /\ repoStatsMap = Sequential.repos
       /\ userStatsMap = Sequential.users

\* Two workers have folded the three PRs of web with the head of the queue last.
C6_Witness ==
    /\ ppc = "done"
    /\ pcfg.Workers = PoolSize
    /\ Len(folded) = 3
    /\ folded[3] = 11
    /\ teamStats.BugFixPRs = 2

Spawned == {w \in Workers : w <= pcfg.Workers}
Drained ==
    /\ chanState = "closed"
    /\ closes = 1
    /\ sent = Len(allIssues)
    /\ Len(prChan) = 0
    /\ wg = 0
    /\ \A w \in Spawned : wpc[w] = "exited"

\* C7: the producer never sends on or closes a closed queue, the queue is
\* closed only after every number was sent, a worker exits only when the
\* queue is closed and empty, and once the pool of a repository is started
\* the wait returns with the queue drained and every worker gone.
C7_RepositoryPassTerminates ==
    /\ [](/\ ppc # "panic"
          /\ closes <= 1
          /\ ppc \in {"produce", "wait"} /\ chanState = "closed" =>
                sent = Len(allIssues)
          /\ \A w \in Spawned :
                wpc[w] = "exited" => chanState = "closed" /\ Len(prChan) = 0)
    /\ (ppc = "spawn") ~> (ppc \in {"loop", "done"} /\ Drained)
    /\ <>(ppc = "done")

\* The wait of the second repository has returned after two workers drained
\* its queue.
C7_Witness ==
    /\ ppc = "loop"
    /\ pri = 3
    /\ pcfg.Workers = PoolSize
    /\ Drained
    /\ Len(folded) >= 2
    /\ \E e \in getLog : ~e.ok

\* C8: a repository one of whose search pages failed is not recorded as a
\* repository without merged PRs.
C8_SearchFailurePropagated ==
    \A k \in 1..Len(searchLog) :
       ~searchLog[k].ok => searchLog[k].repo \notin DOMAIN repoStatsMap

----------------------------------------------------------------------------
\* The result of GetMergedPRs, under PageSpec

InWindow(pr) ==
    /\ pr.MergedAt # NilTime
    /\ cfg.From <= pr.MergedAt[1]
    /\ pr.MergedAt[1] <= cfg.To
OnAllowList(pr) ==
    \/ Len(cfg.Members) = 0
    \/ \E k \in 1..Len(cfg.Members) : EqualFold(cfg.Members[k], pr.Login)

RECURSIVE Wanted(_)
\* The pull requests of a listing that are merged in the window by an allowed
\* author, in the order of the listing.
Wanted(list) ==
    IF list = << >> THEN << >>
    ELSE (IF InWindow(Head(list)) /\ OnAllowList(Head(list))
          THEN << Head(list) >> ELSE << >>) \o Wanted(Tail(list))

\* C11: when GetMergedPRs returns, it returns every pull request of the
\* listing that is merged in the window by an allowed author, in the order of
\* the listing, and no other.
C11_ReturnsFullResultSet ==
    pc = "trunk_main" => prs = Wanted(world[requested[1].repo])


\* The trunk fetch of the repository is over.
TrunkOver == InLoop

BothTrunksFailed ==
    /\ Len(trunkTried) = 2
    /\ ~trunkTried[1].ok
    /\ ~trunkTried[2].ok

\* C12: the fetch of the trunk commits is best-effort: "master" is tried if and
\* only if the attempt on "main" failed; when both fail the revert count is 0
\* and calculateMetrics does not fail: the repository is not reported as failed
\* and the finalized Metrics carry the pull-request counts and the samples, the
\* failure count and rate being those of the classified pull requests alone.
C12_TrunkBestEffort ==
    /\ Len(trunkTried) <= 2
    /\ Len(trunkTried) >= 1 => trunkTried[1].branch = "main"
    /\ Len(trunkTried) = 2 => trunkTried[2].branch = "master"
    /\ pc = "trunk_master" => trunkTried = << [branch |-> "main", ok |-> FALSE] >>
    /\ TrunkOver =>
          /\ Len(trunkTried) >= 1
          /\ Len(trunkTried) = 2 <=> ~trunkTried[1].ok
          /\ revertCount = TrunkReverts
          /\ Repo \notin Range(failedRepos)
    /\ TrunkOver /\ BothTrunksFailed => revertCount = 0
    /\ pc = "return" /\ BothTrunksFailed =>
          /\ metrics.Repo = Repo
          /\ metrics.DeploymentsTotal = Len(prs)
          /\ metrics.PRsAnalyzed = Len(prs)
          /\ metrics.FailureCount = ClassifiedFailures
          /\ metrics.ChangeFailureRate = FailureRate(ClassifiedFailures, 0, Len(prs))
          /\ metrics.LeadTimeForChanges = average(leadTimes)
          /\ metrics.LeadTimeMedian = median(leadTimes)
          /\ metrics.TimeToFirstReview = average(firstReviewTimes)
          /\ metrics.TimeToFirstReviewMedian = median(firstReviewTimes)
          /\ MemberTotal("PRsMerged") = Len(prs)

\* Both trunk fetches failed and the repository's Metrics are finalized with a
\* classified failure among its pull requests.
C12_Witness ==
    /\ pc = "return"
    /\ BothTrunksFailed
    /\ Len(prs) > 0
    /\ metrics.FailureCount > 0
    /\ Len(leadTimes) > 0

\* C13: printSummary applied to the finalized Metrics of a single repository
\* computes that repository's own totals: the same deployment count and failure
\* count, the same average and median of the lead times and of the times to
\* first review, the same members, and for each member the same counts,
\* averages and medians.
C13_SingleRepoCombinedIsOwn ==
    fnIn.fn = "printSummary" =>
        LET m == fnIn.arg[1]
            c == fnOut[1]
        IN  /\ c.totalDeploys = m.DeploymentsTotal
            /\ c.totalFailures = m.FailureCount
            /\ c.LeadTimeAverage = m.LeadTimeForChanges
            /\ c.LeadTimeMedian = m.LeadTimeMedian
            /\ c.FirstReviewAverage = m.TimeToFirstReview
            /\ c.FirstReviewMedian = m.TimeToFirstReviewMedian
            /\ DOMAIN c.combinedMembers = DOMAIN m.MemberMetrics
            /\ \A key \in DOMAIN m.MemberMetrics :
                  LET cm == c.combinedMembers[key]
                      mm == m.MemberMetrics[key]
                  IN  /\ cm.PRsMerged = mm.PRsMerged
                      /\ cm.FailurePRs = mm.FailurePRs
                      /\ cm.AvgLeadTime = mm.AvgLeadTime
                      /\ cm.MedianLeadTime = mm.MedianLeadTime
                      /\ cm.AvgTimeToFirstReview = mm.AvgTimeToFirstReview
                      /\ cm.MedianTimeToFirstReview = mm.MedianTimeToFirstReview

\* printSummary was applied to one repository with two members, failures and
\* two different lead-time samples.
C13_Witness ==
    /\ fnIn.fn = "printSummary"
    /\ Cardinality(DOMAIN fnIn.arg[1].MemberMetrics) = 2
    /\ fnIn.arg[1].FailureCount > 0
    /\ Len(fnOut[1].allLeadTimes) = 2
    /\ fnOut[1].allLeadTimes[1] # fnOut[1].allLeadTimes[2]
    /\ Len(fnOut[1].allFirstReviewTimes) > 0

\* The entry of `key` in the member map of m, or a new one.
EntryOf(m, key) ==
    IF key \in DOMAIN m.MemberMetrics THEN m.MemberMetrics[key] ELSE NewMember(key)

\* C14: printSummary merges the member aggregates by lower-cased handle: a
\* contributor of several repositories, under any letter case, has exactly one
\* combined entry; its counts are the sums and its duration collections the
\* concatenations of the per-repository ones, and its averages and medians
\* are those of the pooled collections (lead times [1] and [3] in two
\* repositories give the average 2).
C14_MembersMergedByFoldedHandle ==
    fnIn.fn = "printSummary" /\ Len(fnIn.arg) = 2 /\ fnOut # << >> =>
        LET a == fnIn.arg[1]
            b == fnIn.arg[2]
            c == fnOut[1].combinedMembers
        IN  /\ DOMAIN c = DOMAIN a.MemberMetrics \cup DOMAIN b.MemberMetrics
            /\ \A key \in DOMAIN c :
                  LET ma == EntryOf(a, key)
                      mb == EntryOf(b, key)
                  IN  /\ key = ToLower(c[key].Username)
                      /\ c[key].PRsMerged = ma.PRsMerged + mb.PRsMerged
                      /\ c[key].FailurePRs = ma.FailurePRs + mb.FailurePRs
                      /\ c[key].LeadTimes = ma.LeadTimes \o mb.LeadTimes
                      /\ c[key].FirstReviewTimes =
                            ma.FirstReviewTimes \o mb.FirstReviewTimes
                      /\ c[key].AvgLeadTime = average(ma.LeadTimes \o mb.LeadTimes)
                      /\ c[key].MedianLeadTime = median(ma.LeadTimes \o mb.LeadTimes)
                      /\ c[key].AvgTimeToFirstReview =
                            average(ma.FirstReviewTimes \o mb.FirstReviewTimes)
                      /\ c[key].MedianTimeToFirstReview =
                            median(ma.FirstReviewTimes \o mb.FirstReviewTimes)
                      /\ ma.LeadTimes = << 1 >> /\ mb.LeadTimes = << 3 >>
                            => c[key].AvgLeadTime = 2

\* alice has two lead times of 1 in one repository and, as Alice, one of 7 in
\* the other: the combined entry is one, with the pooled average 3 and not the
\* average 4 of the per-repository averages 1 and 7.
C14_Witness ==
    /\ fnIn.fn = "printSummary" /\ Len(fnIn.arg) = 2 /\ fnOut # << >>
    /\ L_alice \in DOMAIN fnIn.arg[1].MemberMetrics
    /\ L_alice \in DOMAIN fnIn.arg[2].MemberMetrics
    /\ fnIn.arg[1].MemberMetrics[L_alice].Username = L_alice
    /\ fnIn.arg[2].MemberMetrics[L_alice].Username = L_Alice
    /\ fnIn.arg[1].MemberMetrics[L_alice].AvgLeadTime = 1
    /\ fnIn.arg[2].MemberMetrics[L_alice].AvgLeadTime = 7
    /\ fnOut[1].combinedMembers[L_alice].LeadTimes = << 1, 1, 7 >>
    /\ fnOut[1].combinedMembers[L_alice].AvgLeadTime = 3
    /\ fnOut[1].combinedMembers[L_alice].PRsMerged = 3

\* The allow-list of the worker-pool program is empty or holds the author's
\* handle in some letter case.
AllowedIgnoringCase(pr) ==
    \/ Cardinality(pcfg.Members) = 0
    \/ \E m \in pcfg.Members : EqualFold(m, pr.Login)

\* C15: the allow-list filter ignores the letter case of the author's handle
\* and an empty allow-list lets every author pass: once the workers are done,
\* the pull requests folded into the counts are exactly the fetched ones whose
\* author the allow-list holds in some letter case, or all of them if the
\* allow-list is empty.
C15_FilterIgnoresCase ==
    NoWorkerRuns =>
        Range(folded) =
            {e.num : e \in {x \in getLog :
                x.ok /\ AllowedIgnoringCase(PullByNumber(x.repo, x.num))}}

\* `text` contains `word`, letter case ignored.
ContainsFolded(text, word) ==
    \E k \in 1..(Len(text) - Len(word) + 1) :
        \A j \in 1..Len(word) : ToLowerChar(text[k + j - 1]) = ToLowerChar(word[j])

FailureByBranchOrLabel(ref, labels) ==
    \/ ContainsFolded(ref, Str_hotfix)
    \/ ContainsFolded(ref, Str_bugfix)
    \/ \E k \in 1..Len(labels) :
          \/ ContainsFolded(labels[k], Str_bug)
          \/ ContainsFolded(labels[k], Str_hotfix)
          \/ ContainsFolded(labels[k], Str_bugfix)

\* C16: isFailurePR is true exactly when the head branch contains hotfix or
\* bugfix or some label contains bug, hotfix or bugfix, letter case ignored; the
\* title plays no part.  For #1 on hotfix/x, #2 on feature/y labelled bug and
\* #3 on feature/z, with no revert commit, DeploymentsTotal is 3 and
\* FailureCount is 2.
C16_ClassifierByBranchOrLabel ==
    fnIn.fn = "isFailurePR" /\ fnOut # << >> =>
        /\ \A k \in 1..Len(fnIn.arg) :
              fnOut[1].flags[k] =
                  FailureByBranchOrLabel(fnIn.arg[k].Ref, fnIn.arg[k].Labels)
        /\ fnIn.arg = ScenarioA =>
              /\ fnOut[1].flags = << TRUE, TRUE, FALSE >>
              /\ fnOut[1].DeploymentsTotal = 3
              /\ fnOut[1].FailureCount = 2

\* The classifier flagged a pull request for a label that contains, and is
\* not, a keyword, its branch and its other label being clean and its title
\* naming a hotfix.
C16_Witness ==
    /\ fnIn.fn = "isFailurePR" /\ fnOut # << >>
    /\ Len(fnIn.arg) = 1
    /\ fnIn.arg[1].Ref = Ref_feature_z
    /\ fnIn.arg[1].Labels = << Label_docs, Label_Debug >>
    /\ fnIn.arg[1].Title = Title_hotfix
    /\ fnOut[1].flags = << TRUE >>

\* The k-th smallest value of a non-empty collection, by counting.
KthSmallest(d, k) ==
    CHOOSE v \in Range(d) :
        /\ Cardinality({j \in 1..Len(d) : d[j] < v}) < k
        /\ Cardinality({j \in 1..Len(d) : d[j] <= v}) >= k

\* The mean of two durations as a duration: a half unit is dropped, towards 0.
MeanOfTwo(a, b) ==
    IF (a + b) % 2 = 0 THEN (a + b) \div 2
    ELSE IF a + b > 0 THEN (a + b - 1) \div 2
    ELSE (a + b + 1) \div 2

Reverse(d) == [k \in 1..Len(d) |-> d[Len(d) + 1 - k]]

\* C17: median is 0 for an empty collection, the middle value of the sorted
\* collection for an odd count and the mean of the two middle values (as a
\* duration) for an even count; the caller's collection is as it was; the
\* median of every rearrangement of the collection, its reverse among them,
\* is the same.
C17_MedianOfSortedCopy ==
    fnIn.fn = "median" /\ fnOut # << >> =>
        LET d == fnIn.arg.durations
            n == Len(d)
            r == fnOut[1]
        IN  /\ n = 0 => r.res = 0
            /\ n % 2 = 1 => r.res = KthSmallest(d, (n + 1) \div 2)
            /\ n > 0 /\ n % 2 = 0 =>
                  r.res = MeanOfTwo(KthSmallest(d, n \div 2),
                                    KthSmallest(d, n \div 2 + 1))
            /\ r.durations = d
            /\ r.resRearranged = r.res
            /\ fnIn.arg.rearranged = Reverse(d) => r.resRearranged = r.res

\* median was applied to an unsorted collection of four values, whose two
\* middle values have an odd sum, and to its reverse.
C17_Witness ==
    /\ fnIn.fn = "median" /\ fnOut # << >>
    /\ fnIn.arg.durations = << 7, 0 - 3, 4, 0 >>
    /\ fnIn.arg.rearranged = << 0, 4, 0 - 3, 7 >>
    /\ fnOut[1].sorted = << 0 - 3, 0, 4, 7 >>
    /\ fnOut[1].res = 2

\* A repository's pass is finalized when its Stats are recorded in repoStatsMap.
SomePassFinalized == DOMAIN repoStatsMap # {}

\* C18: once a repository's pass has drained and been finalized, no later step
\* changes the team, repository or member accumulator values it produced: the
\* team totals, the recorded repository totals and the members' totals stay as
\* they are.
C18_FinalizedPassUntouched ==
    [][SomePassFinalized =>
          /\ teamStats' = teamStats
          /\ \A r \in DOMAIN repoStatsMap :
                r \in DOMAIN repoStatsMap' /\ repoStatsMap'[r] = repoStatsMap[r]
          /\ \A a \in DOMAIN userStatsMap :
                a \in DOMAIN userStatsMap' /\ userStatsMap'[a] = userStatsMap[a]]_vars

\* Merge time minus the earliest author date of the commits of a pull request
\* of the worker-pool program.
SinceFirstCommit(pr) ==
    LET dates == PoolCommitDates(pr.Number)
    IN  pr.MergedAt - (CHOOSE d \in Range(dates) : \A x \in Range(dates) : d <= x)

RECURSIVE SinceFirstCommitSum(_)
SinceFirstCommitSum(S) ==
    IF S = {} THEN 0
    ELSE LET e == CHOOSE x \in S : TRUE
         IN  SinceFirstCommit(PullByNumber(e.repo, e.num)) + SinceFirstCommitSum(S \ {e})

\* C19: the lead-time sample of a pull request with commits is its merge time
\* minus the earliest author date of its commits, in whatever order they are
\* listed, and is not clamped: once the workers are done, the team's sum of
\* lead times is the sum of these differences over the pull requests counted.
C19_LeadTimeFromFirstCommit ==
    NoWorkerRuns => teamStats.TotalLeadTime = SinceFirstCommitSum(Counted)

RECURSIVE MemberSamples(_, _, _)
\* The samples `what` of the members `keys` of a member map, one after another.
MemberSamples(mm, keys, what) ==
    IF keys = {} THEN << >>
    ELSE LET k == CHOOSE x \in keys : TRUE
         IN  (IF what = "lead" THEN mm[k].LeadTimes ELSE mm[k].FirstReviewTimes)
                 \o MemberSamples(mm, keys \ {k}, what)

\* Equal as multisets.
SameSamples(a, b) == SortDurations(a) = SortDurations(b)

RECURSIVE RepoSamples(_, _)
\* The repository-scope samples of the repositories analysed, one after another.
RepoSamples(rs, what) ==
    IF rs = << >> THEN << >>
    ELSE (IF what = "lead" THEN Head(rs).leadTimes ELSE Head(rs).firstReviewTimes)
             \o RepoSamples(Tail(rs), what)

\* C20: throughout and after calculateMetrics the repository-scope lead times
\* are, as a multiset, the members' lead times taken together, and likewise
\* the times to first review; the finalized DeploymentsTotal is the sum of the
\* members' PRsMerged; and the pools printSummary builds from the members'
\* samples hold exactly the repository-scope samples of all repositories.
C20_RepoSamplesAreMemberSamples ==
    /\ InLoop =>
          /\ SameSamples(leadTimes,
                         MemberSamples(metrics.MemberMetrics, MemberKeys, "lead"))
          /\ SameSamples(firstReviewTimes,
                         MemberSamples(metrics.MemberMetrics, MemberKeys, "review"))
    /\ pc = "return" => MemberTotal("PRsMerged") = metrics.DeploymentsTotal
    /\ Len(returned) = Len(allMetrics)
    /\ \A k \in 1..Len(allMetrics) :
          /\ SameSamples(returned[k].leadTimes,
                         MemberSamples(allMetrics[k].MemberMetrics,
                                       DOMAIN allMetrics[k].MemberMetrics, "lead"))
          /\ SameSamples(returned[k].firstReviewTimes,
                         MemberSamples(allMetrics[k].MemberMetrics,
                                       DOMAIN allMetrics[k].MemberMetrics, "review"))
          /\ SumOver(allMetrics[k].MemberMetrics, DOMAIN allMetrics[k].MemberMetrics,
                     "PRsMerged") = allMetrics[k].DeploymentsTotal
    /\ summary # << >> =>
          /\ SameSamples(summary[1].allLeadTimes, RepoSamples(returned, "lead"))
          /\ SameSamples(summary[1].allFirstReviewTimes, RepoSamples(returned, "review"))

\* Two repositories were analysed; two members of the first have a lead time
\* each, the first has a review sample, and the combined pool holds the three
\* lead times of both.
C20_Witness ==
    /\ summary # << >>
    /\ Len(returned) = 2
    /\ Len(returned[1].leadTimes) = 2
    /\ Len(returned[2].leadTimes) = 1
    /\ Len(returned[1].firstReviewTimes) > 0
    /\ Len(summary[1].allLeadTimes) = 3
    /\ Cardinality({k \in DOMAIN allMetrics[1].MemberMetrics :
                       Len(allMetrics[1].MemberMetrics[k].LeadTimes) = 1}) = 2
====
